---------------------------- MODULE Spec2Model ----------------------------
(***************************************************************************)
(* A model of the GavelRS daemon: the state store (daemon/state.rs), the   *)
(* command handlers (daemon/handlers/*.rs) and the scheduler loop with its *)
(* child monitors (daemon/scheduler.rs).                                   *)
(*                                                                         *)
(* Rust Option values are modelled as sequences of length at most one:     *)
(* None is <<>> and Some(x) is <<x>>.  A HashMap is a function whose       *)
(* DOMAIN is the set of keys present.  A Vec is a sequence.                *)
(***************************************************************************)
EXTENDS Integers, Sequences, FiniteSets, TLC

\* ------------------------------------------------------------------ bounds
\* Number of submissions in a run; the k-th submission gets task id k.
MaxTasks == 2
\* Number of GPUs the telemetry provider detects (indices 0..NumGpus-1).
NumGpus == 1
\* Largest gpu_num_required a client submits.
MaxGpuReq == 1
\* Number of client requests the daemon handles in a run.
MaxRequests == 4
\* Number of submissions in a run that follows the ids generate_task_id gives.
MaxSubmissions == 101
\* Last second of the clock in such a run; the daemon starts at it or the
\* second before.
MaxClock == 2000000
\* Number of connections that may have a GPU.Allocate in progress at once.
NumConns == 2

TaskIds == 1..MaxTasks
GpuIds == 0..(NumGpus - 1)
GpuReqs == 0..MaxGpuReq
Conns == 1..NumConns
Pids == 1..MaxTasks
ClockStarts == {MaxClock - 1, MaxClock}

\* ------------------------------------------------------- program constants
DEFAULT_WAITING_QUEUE_NAME == "waiting_queue"
DEFAULT_RUNNING_QUEUE_NAME == "running_queue"
\* A queue name a client may create, explicitly or by submitting to it.
UserQueue == "q1"
QueueNames == {DEFAULT_WAITING_QUEUE_NAME, DEFAULT_RUNNING_QUEUE_NAME, UserQueue}

\* GpuStats.memory_usage is kept in KiB. is_gpu_qualifying_for_queue divides
\* the byte counts by 1024 * 1024, which is the division of the KiB by 1024:
\* the bytes below one KiB never reach the quotient.
KibPerMb == 1024
\* generate_task_id keeps the seconds modulo SecsModulus and the counter
\* modulo CounterModulus
SecsModulus == 1000000
CounterModulus == 100
\* priority handle_submit_command gives a task
SubmitPriority == 5
\* priority and concurrency of a queue add_task creates
DefaultQueuePriority == 10
DefaultMaxConcurrent == 1
\* priority ensure_default_queues_exist gives running_queue
RunningQueuePriority == 1
\* priorities a client passes to Queue.Create
CreatePriorities == {5}

None == <<>>
Some(x) == <<x>>
IsSome(o) == Len(o) = 1
Unwrap(o) == o[1]

\* ---------------------------------------------------------------- HashMap
Insert(m, k, v) == [x \in (DOMAIN m) \cup {k} |-> IF x = k THEN v ELSE m[x]]
Remove(m, k) == [x \in (DOMAIN m) \ {k} |-> m[x]]
EmptyMap == [x \in {} |-> 0]

\* -------------------------------------------------------------------- Vec
contains(s, x) == \E i \in 1..Len(s) : s[i] = x
retain_ne(s, x) == SelectSeq(s, LAMBDA y : y # x)
push_unique(s, x) == IF contains(s, x) THEN s ELSE Append(s, x)
Elems(s) == {s[i] : i \in 1..Len(s)}
take(s, n) == SubSeq(s, 1, n)

\* ----------------------------------------------------------------- models
ResourceLimitDefault ==
    [memory_requirement_type |-> "Ignore",
     memory_requirement_value |-> 0,
     max_gpu_utilization |-> -1]

\* The telemetry a refresh can report for one GPU.
StatProfiles ==
    {[free |-> 2 * KibPerMb, total |-> 4 * KibPerMb, core_usage |-> 50]}

VARIABLES
    tasks,            \* InnerDaemonState.tasks: id -> TaskMeta
    queues,           \* InnerDaemonState.queues: name -> QueueMeta
    gpu_stats,        \* InnerDaemonState.gpu_stats: gpu -> GpuStats
    gpu_allocations,  \* InnerDaemonState.gpu_allocations: gpu -> Option<queue>
    ignored_gpus,     \* InnerDaemonState.ignored_gpus
    ID_COUNTER,       \* submissions so far (generate_task_id's counter)
    children,         \* spawned child processes and their monitors: pid -> child
    sched_pc,         \* the step of run_scheduler's loop body that comes next
    requests,         \* client requests handled so far
    local,            \* the locals of the handlers and of the placement pass in flight
    now               \* SystemTime::now(), in seconds since the epoch

vars == <<tasks, queues, gpu_stats, gpu_allocations, ignored_gpus,
          ID_COUNTER, children, sched_pc, requests, local, now>>

\* The InnerDaemonState behind the lock, as one value.
Inner ==
    [tasks |-> tasks, queues |-> queues, gpu_stats |-> gpu_stats,
     gpu_allocations |-> gpu_allocations, ignored_gpus |-> ignored_gpus]

Commit(st) ==
    /\ tasks' = st.tasks
    /\ queues' = st.queues
    /\ gpu_stats' = st.gpu_stats
    /\ gpu_allocations' = st.gpu_allocations
    /\ ignored_gpus' = st.ignored_gpus

EmptyInner ==
    [tasks |-> EmptyMap, queues |-> EmptyMap, gpu_stats |-> EmptyMap,
     gpu_allocations |-> EmptyMap, ignored_gpus |-> {}]

\* ------------------------------------------------- state.rs: DaemonState
NewQueue(name, priority, max_concurrent, allocated, waiting) ==
    [name |-> name, max_concurrent |-> max_concurrent, priority |-> priority,
     waiting_task_ids |-> waiting, running_task_ids |-> <<>>,
     allocated_gpus |-> allocated, resource_limit |-> ResourceLimitDefault]

\* add_task that leaves a missing queue missing.
add_task_no_create(st, task) ==
    [st EXCEPT !.tasks = Insert(st.tasks, task.id, task),
               !.queues = IF task.queue \in DOMAIN st.queues
                          THEN [st.queues EXCEPT ![task.queue].waiting_task_ids =
                                                    push_unique(@, task.id)]
                          ELSE st.queues]

\* add_task that pushes the id to the waiting list even when the list holds it.
add_task_always_push(st, task) ==
    LET tasks1 == Insert(st.tasks, task.id, task)
    IN  IF task.queue \in DOMAIN st.queues
        THEN [st EXCEPT !.tasks = tasks1,
                        !.queues = [st.queues EXCEPT ![task.queue].waiting_task_ids =
                                                        Append(@, task.id)]]
        ELSE [st EXCEPT !.tasks = tasks1,
                        !.queues = Insert(st.queues, task.queue,
                                          NewQueue(task.queue, DefaultQueuePriority,
                                                   DefaultMaxConcurrent, <<>>,
                                                   <<task.id>>))]


add_task(st, task) ==
    LET tasks1 == Insert(st.tasks, task.id, task)
    IN  IF task.queue \in DOMAIN st.queues
        THEN [st EXCEPT !.tasks = tasks1,
                        !.queues = [st.queues EXCEPT ![task.queue].waiting_task_ids =
                                                        push_unique(@, task.id)]]
        ELSE [st EXCEPT !.tasks = tasks1,
                        !.queues = Insert(st.queues, task.queue,
                                          NewQueue(task.queue, DefaultQueuePriority,
                                                   DefaultMaxConcurrent, <<>>,
                                                   <<task.id>>))]

get_task(st, task_id) ==
    IF task_id \in DOMAIN st.tasks THEN Some(st.tasks[task_id]) ELSE None

get_queue(st, queue_name) ==
    IF queue_name \in DOMAIN st.queues THEN Some(st.queues[queue_name]) ELSE None

\* Result<()> of a state method: the new state and whether it returned Ok.
Ok(st) == [ok |-> TRUE, st |-> st]
Err(st) == [ok |-> FALSE, st |-> st]

set_task_pid(st, task_id, pid) ==
    IF task_id \in DOMAIN st.tasks
    THEN Ok([st EXCEPT !.tasks[task_id].pid = pid])
    ELSE Err(st)

\* The queue's two lists after task_id went from old_state to new_state.
QueueListsAfter(queue, task_id, old_state, new_state) ==
    LET removed ==
            CASE old_state = "Waiting" ->
                    [queue EXCEPT !.waiting_task_ids = retain_ne(@, task_id)]
              [] old_state = "Running" ->
                    [queue EXCEPT !.running_task_ids = retain_ne(@, task_id)]
              [] OTHER -> queue
    IN  CASE new_state = "Waiting" ->
                [removed EXCEPT !.waiting_task_ids = push_unique(@, task_id)]
          [] new_state = "Running" ->
                [removed EXCEPT !.running_task_ids = push_unique(@, task_id)]
          [] OTHER -> removed

update_task_state(st, task_id, new_state_val, assigned_gpu_ids, failure_reason) ==
    IF task_id \in DOMAIN st.tasks
    THEN LET task == st.tasks[task_id]
             old_state == task.state
             queue_name == task.queue
             task1 == [task EXCEPT
                          !.state = new_state_val,
                          !.failure_reason =
                              IF new_state_val = "Failed" THEN failure_reason ELSE None,
                          !.gpu_ids =
                              IF IsSome(assigned_gpu_ids) THEN Unwrap(assigned_gpu_ids)
                                                          ELSE @]
             st1 == [st EXCEPT !.tasks[task_id] = task1]
         IN  IF old_state # new_state_val /\ queue_name \in DOMAIN st.queues
             THEN Ok([st1 EXCEPT !.queues[queue_name] =
                                    QueueListsAfter(@, task_id, old_state, new_state_val)])
             ELSE Ok(st1)
    ELSE Err(st)

update_task_queue(st, task_id, new_queue_name) ==
    IF new_queue_name \notin DOMAIN st.queues THEN Err(st)
    ELSE IF task_id \notin DOMAIN st.tasks THEN Err(st)
    ELSE IF st.tasks[task_id].queue = new_queue_name THEN Ok(st)
    ELSE
      LET old_queue_name == st.tasks[task_id].queue
          task_state_at_move_start == st.tasks[task_id].state
          st1 == [st EXCEPT !.tasks[task_id].queue = new_queue_name]
          \* 3. remove the id from the old queue's lists
          st2 == IF old_queue_name \in DOMAIN st1.queues
                 THEN [st1 EXCEPT !.queues[old_queue_name] =
                          CASE task_state_at_move_start = "Waiting" ->
                                  [@ EXCEPT !.waiting_task_ids = retain_ne(@, task_id)]
                            [] task_state_at_move_start = "Running" ->
                                  [@ EXCEPT !.running_task_ids = retain_ne(@, task_id)]
                            [] OTHER ->
                                  [@ EXCEPT !.waiting_task_ids = retain_ne(@, task_id),
                                            !.running_task_ids = retain_ne(@, task_id)]]
                 ELSE st1
          \* 4. add the id to the new queue's waiting list
          new_queue == st2.queues[new_queue_name]
          st3 == IF /\ ~contains(new_queue.waiting_task_ids, task_id)
                    /\ ~contains(new_queue.running_task_ids, task_id)
                 THEN [st2 EXCEPT !.queues[new_queue_name].waiting_task_ids =
                                      Append(@, task_id)]
                 ELSE st2
      IN Ok(st3)

update_task_priority(st, task_id, new_priority) ==
    IF task_id \in DOMAIN st.tasks
    THEN Ok([st EXCEPT !.tasks[task_id].priority = new_priority])
    ELSE Err(st)

\* remove_task returns Ok(removed_task): removed is the Option.
remove_task(st, task_id) ==
    IF task_id \notin DOMAIN st.tasks
    THEN [removed |-> None, st |-> st]
    ELSE LET task == st.tasks[task_id]
             st1 == [st EXCEPT !.tasks = Remove(st.tasks, task_id)]
             st2 == IF task.queue \in DOMAIN st1.queues
                    THEN [st1 EXCEPT !.queues[task.queue] =
                            CASE task.state = "Waiting" ->
                                    [@ EXCEPT !.waiting_task_ids = retain_ne(@, task_id)]
                              [] task.state = "Running" ->
                                    [@ EXCEPT !.running_task_ids = retain_ne(@, task_id)]
                              [] OTHER ->
                                    [@ EXCEPT !.waiting_task_ids = retain_ne(@, task_id),
                                              !.running_task_ids = retain_ne(@, task_id)]]
                    ELSE st1
         IN  [removed |-> Some(task), st |-> st2]

add_queue(st, queue) == [st EXCEPT !.queues = Insert(st.queues, queue.name, queue)]

update_queue_resource_limit(st, queue_name, new_limit) ==
    IF queue_name \in DOMAIN st.queues
    THEN Ok([st EXCEPT !.queues[queue_name].resource_limit = new_limit])
    ELSE Err(st)

set_gpu_ignore(st, gpu_id) == [st EXCEPT !.ignored_gpus = @ \cup {gpu_id}]
unset_gpu_ignore(st, gpu_id) == [st EXCEPT !.ignored_gpus = @ \ {gpu_id}]
set_gpu_allocation(st, gpu_id, queue_name) ==
    [st EXCEPT !.gpu_allocations = Insert(@, gpu_id, queue_name)]
remove_gpu_allocation(st, gpu_id) ==
    [st EXCEPT !.gpu_allocations = Remove(@, gpu_id)]
\* Option<Option<String>>: None when the GPU is absent from the map.
get_gpu_allocation(st, gpu_id) ==
    IF gpu_id \in DOMAIN st.gpu_allocations THEN Some(st.gpu_allocations[gpu_id])
    ELSE None


\* --------------------------------------------- handlers/mod.rs: boot queues
RECURSIVE SetToSortedSeq(_)
SetToSortedSeq(S) ==
    IF S = {} THEN <<>>
    ELSE LET m == CHOOSE x \in S : \A y \in S : x <= y
         IN  <<m>> \o SetToSortedSeq(S \ {m})

Max(a, b) == IF a >= b THEN a ELSE b

ensure_default_queues_exist(st) ==
    LET st1 == IF get_queue(st, DEFAULT_WAITING_QUEUE_NAME) = None
               THEN add_queue(st, NewQueue(DEFAULT_WAITING_QUEUE_NAME,
                                           DefaultQueuePriority, DefaultMaxConcurrent,
                                           <<>>, <<>>))
               ELSE st
        available_gpus == SetToSortedSeq((DOMAIN st1.gpu_stats) \ st1.ignored_gpus)
    IN  IF get_queue(st1, DEFAULT_RUNNING_QUEUE_NAME) = None
        THEN add_queue(st1, NewQueue(DEFAULT_RUNNING_QUEUE_NAME, RunningQueuePriority,
                                     Max(Len(available_gpus), 1), available_gpus, <<>>))
        ELSE st1

\* ------------------------------------------- handlers/submit_handler.rs
\* generate_task_id, for submissions that do not collide: the k-th submission
\* of the process gets an id no earlier submission got, here k itself.
NextTaskId(counter) == counter + 1

\* generate_task_id at clock second secs, counter being the value fetch_add
\* returns (the number of ids generated before).
generate_task_id(secs, counter) ==
    ((secs % SecsModulus) * CounterModulus) + (counter % CounterModulus)

NewTask(task_id, queue, gpu_num_required) ==
    [id |-> task_id, pid |-> None, gpu_require |-> gpu_num_required,
     state |-> "Waiting", priority |-> SubmitPriority, queue |-> queue,
     gpu_ids |-> <<>>, failure_reason |-> None]

\* SubmitAction::Command and SubmitAction::Script (the same effect on the state)
handle_submit_command(st, task_id, gpu_num_required, queue_name) ==
    LET queue == IF IsSome(queue_name) THEN Unwrap(queue_name)
                 ELSE DEFAULT_WAITING_QUEUE_NAME
    IN  [reply |-> "Ack", st |-> add_task(st, NewTask(task_id, queue, gpu_num_required))]

\* --------------------------------------------- handlers/task_handler.rs
handle_task_run(st, task_id) ==
    IF get_task(st, task_id) = None THEN [reply |-> "Error", st |-> st]
    ELSE IF st.tasks[task_id].queue # DEFAULT_WAITING_QUEUE_NAME
         THEN [reply |-> "Error", st |-> st]
    ELSE LET r == update_task_queue(st, task_id, DEFAULT_RUNNING_QUEUE_NAME)
         IN  [reply |-> IF r.ok THEN "Ack" ELSE "Error", st |-> r.st]

\* kill(pid, SIGTERM): Ok when a process with that pid exists, ESRCH otherwise.
ProcessExists(ch, pid) == pid \in DOMAIN ch /\ ch[pid].alive

\* The reply, and the children after the signal was sent (term: SIGTERM received).
handle_task_kill(st, ch, task_id) ==
    IF get_task(st, task_id) = None THEN [reply |-> "Error", children |-> ch]
    ELSE IF st.tasks[task_id].state # "Running" THEN [reply |-> "Ack", children |-> ch]
    ELSE IF IsSome(st.tasks[task_id].pid)
         THEN LET pid == Unwrap(st.tasks[task_id].pid)
              IN  IF ProcessExists(ch, pid)
                  THEN [reply |-> "Ack", children |-> [ch EXCEPT ![pid].term = TRUE]]
                  ELSE [reply |-> "Error", children |-> ch]
         ELSE [reply |-> "Error", children |-> ch]

handle_task_remove(st, task_id) ==
    IF get_task(st, task_id) = None THEN [reply |-> "Error", st |-> st]
    ELSE IF st.tasks[task_id].state = "Running" THEN [reply |-> "Error", st |-> st]
    ELSE LET r == remove_task(st, task_id)
         IN  [reply |-> IF IsSome(r.removed) THEN "Ack" ELSE "Error", st |-> r.st]

\* -------------------------------------------- handlers/queue_handler.rs
RECURSIVE MoveAll(_, _, _)
\* the loop of handle_queue_merge over tasks_to_move
MoveAll(st, task_ids, dest) ==
    IF task_ids = <<>> THEN [errors |-> 0, st |-> st]
    ELSE LET r == update_task_queue(st, Head(task_ids), dest)
             rest == MoveAll(r.st, Tail(task_ids), dest)
         IN  [errors |-> rest.errors + (IF r.ok THEN 0 ELSE 1), st |-> rest.st]

handle_queue_merge(st, source, dest) ==
    IF get_queue(st, source) = None THEN [reply |-> "Error", st |-> st]
    ELSE IF get_queue(st, dest) = None THEN [reply |-> "Error", st |-> st]
    ELSE IF source = dest THEN [reply |-> "Error", st |-> st]
    ELSE LET tasks_to_move ==
                 SetToSortedSeq({t \in DOMAIN st.tasks : st.tasks[t].queue = source})
             r == MoveAll(st, tasks_to_move, dest)
         IN  [reply |-> IF r.errors = 0 THEN "Ack" ELSE "Error", st |-> r.st]

handle_queue_create(st, name, priority) ==
    IF get_queue(st, name) # None THEN [reply |-> "Error", st |-> st]
    ELSE [reply |-> "Ack",
          st |-> add_queue(st, NewQueue(name, priority, DefaultMaxConcurrent, <<>>, <<>>))]

handle_queue_move(st, task_id, dest_queue) ==
    IF get_task(st, task_id) = None THEN [reply |-> "Error", st |-> st]
    ELSE IF get_queue(st, dest_queue) = None THEN [reply |-> "Error", st |-> st]
    ELSE IF st.tasks[task_id].queue = dest_queue THEN [reply |-> "Ack", st |-> st]
    ELSE LET r == update_task_queue(st, task_id, dest_queue)
         IN  [reply |-> IF r.ok THEN "Ack" ELSE "Error", st |-> r.st]

\* ---------------------------------------------- handlers/gpu_handler.rs
\* One round of the loop that refuses every GPU a queue owns, the named queue
\* included.
AllocateOne_refuse_owned(st, gpu_id, queue) ==
    IF gpu_id \in st.ignored_gpus THEN Err(st)
    ELSE LET a == get_gpu_allocation(st, gpu_id)
         IN  IF IsSome(a) /\ IsSome(Unwrap(a))
             THEN Err(st)
             ELSE Ok(set_gpu_allocation(st, gpu_id, Some(queue)))

\* One round of handle_gpu_allocate's loop: the state and whether the id failed.
AllocateOne(st, gpu_id, queue) ==
    IF gpu_id \in st.ignored_gpus THEN Err(st)
    ELSE LET a == get_gpu_allocation(st, gpu_id)
         IN  IF IsSome(a) /\ IsSome(Unwrap(a))
             THEN IF Unwrap(Unwrap(a)) # queue THEN Err(st) ELSE Ok(st)
             ELSE Ok(set_gpu_allocation(st, gpu_id, Some(queue)))

RECURSIVE AllocateAll(_, _, _)
AllocateAll(st, gpu_ids, queue) ==
    IF gpu_ids = <<>> THEN [errors |-> 0, st |-> st]
    ELSE LET r == AllocateOne(st, Head(gpu_ids), queue)
             rest == AllocateAll(r.st, Tail(gpu_ids), queue)
         IN  [errors |-> rest.errors + (IF r.ok THEN 0 ELSE 1), st |-> rest.st]

handle_gpu_allocate(st, gpu_ids, queue) ==
    IF gpu_ids = <<>> THEN [reply |-> "Error", st |-> st]
    ELSE IF get_queue(st, queue) = None THEN [reply |-> "Error", st |-> st]
    ELSE LET r == AllocateAll(st, gpu_ids, queue)
         IN  [reply |-> IF r.errors = 0 THEN "Ack" ELSE "Error", st |-> r.st]

RECURSIVE KillAll(_, _, _)
\* the loop of handle_gpu_release over the Running tasks that use the GPU
KillAll(st, ch, task_ids) ==
    IF task_ids = <<>> THEN ch
    ELSE KillAll(st, handle_task_kill(st, ch, Head(task_ids)).children, Tail(task_ids))

handle_gpu_release(st, ch, gpu_id) ==
    LET using == {t \in DOMAIN st.tasks :
                     st.tasks[t].state = "Running" /\ contains(st.tasks[t].gpu_ids, gpu_id)}
    IN  [reply |-> "Ack",
         children |-> KillAll(st, ch, SetToSortedSeq(using)),
         st |-> set_gpu_allocation(st, gpu_id, None)]

\* handle_gpu_ignore that leaves the GPU's entry in the allocation map.
handle_gpu_ignore_keep_entry(st, gpu_id) ==
    LET a == get_gpu_allocation(st, gpu_id)
    IN  IF IsSome(a) /\ IsSome(Unwrap(a)) THEN [reply |-> "Error", st |-> st]
        ELSE [reply |-> "Ack", st |-> set_gpu_ignore(st, gpu_id)]


handle_gpu_ignore(st, gpu_id) ==
    LET a == get_gpu_allocation(st, gpu_id)
    IN  IF IsSome(a) /\ IsSome(Unwrap(a)) THEN [reply |-> "Error", st |-> st]
        ELSE [reply |-> "Ack",
              st |-> remove_gpu_allocation(set_gpu_ignore(st, gpu_id), gpu_id)]

\* The loop of handle_gpu_reset_ignored without the write of None to the
\* allocation map.
UnignoreAll_no_entry(st, gpu_ids) ==
    [st EXCEPT !.ignored_gpus = @ \ Elems(gpu_ids)]


RECURSIVE UnignoreAll(_, _)
UnignoreAll(st, gpu_ids) ==
    IF gpu_ids = <<>> THEN st
    ELSE UnignoreAll(set_gpu_allocation(unset_gpu_ignore(st, Head(gpu_ids)),
                                        Head(gpu_ids), None),
                     Tail(gpu_ids))

handle_gpu_reset_ignored(st) ==
    [reply |-> "Ack", st |-> UnignoreAll(st, SetToSortedSeq(st.ignored_gpus))]


\* ------------------------------------------------- scheduler.rs: placement
\* is_gpu_qualifying_for_queue with the Percentage test taken against the
\* free memory alone, the total forgotten.
is_gpu_qualifying_percent_of_free(gpu_id, gpu_stat, limit) ==
    LET free_memory_mb == gpu_stat.free \div KibPerMb
        total_memory_mb == gpu_stat.total \div KibPerMb
        memory_ok ==
            CASE limit.memory_requirement_type = "Ignore" -> TRUE
              [] limit.memory_requirement_type = "AbsoluteMb" ->
                    free_memory_mb >= limit.memory_requirement_value
              [] OTHER ->
                    IF total_memory_mb = 0 THEN FALSE
                    ELSE free_memory_mb * 100 >= limit.memory_requirement_value
        utilization_ok ==
            IF limit.max_gpu_utilization < 0 \/ limit.max_gpu_utilization > 100
            THEN TRUE
            ELSE gpu_stat.core_usage <= limit.max_gpu_utilization
    IN  memory_ok /\ utilization_ok


\* floor(log2(a / b)) for positive integers a and b.
RECURSIVE FloorLog2(_, _)
FloorLog2(a, b) ==
    IF a >= 2 * b THEN FloorLog2(a, 2 * b) + 1
    ELSE IF a < b THEN FloorLog2(2 * a, b) - 1
    ELSE 0

RECURSIVE Pow2(_)
Pow2(e) == IF e = 0 THEN 1 ELSE 2 * Pow2(e - 1)

\* 2^s modulo 100
RECURSIVE Pow2Mod100(_)
Pow2Mod100(s) == IF s = 0 THEN 1 ELSE (2 * Pow2Mod100(s - 1)) % 100

\* (free_mb as f64) >= (value as f64 / 100.0) * total_mb as f64, in IEEE 754
\* binary64 with round-to-nearest-even, for values below 2^31.  The integers
\* convert exactly.  The quotient value / 100.0 is rounded to the mantissa
\* nearest to value * 2^s / 100, s = 52 - floor(log2(value / 100)), so it is
\* value / 100 + d / (100 * 2^s) with d the signed remainder below.  The
\* product is then x + d * total_mb / (100 * 2^s) before rounding, with
\* x = value * total_mb / 100.  Unless x is an integer equal to free_mb the
\* rounding cannot change the comparison (x is at least 1/100 away from
\* free_mb).  When x = free_mb the test fails exactly when the product rounds
\* above x, which is when its excess over x is more than half the spacing
\* 2^(k - 52) of the doubles at x, k = floor(log2(x)); a tie rounds to x, whose
\* mantissa is even.
f64_free_ge_required(free_mb, value, total_mb) ==
    IF value = 0 \/ total_mb = 0 THEN TRUE
    ELSE IF (value * total_mb) % 100 # 0 \/ free_mb * 100 # value * total_mb
    THEN free_mb * 100 >= value * total_mb
    ELSE LET j == FloorLog2(value, 100)
             r == (value * Pow2Mod100(52 - j)) % 100
             d == IF r < 50 THEN 0 - r ELSE 100 - r
             k == FloorLog2(free_mb, 1)
             e == k - j - 1
             rounds_up == IF e >= 0 THEN d * total_mb > 100 * Pow2(e)
                          ELSE d * total_mb * Pow2(0 - e) > 100
         IN  ~rounds_up

is_gpu_qualifying_for_queue(gpu_id, gpu_stat, limit) ==
    LET free_memory_mb == gpu_stat.free \div KibPerMb
        total_memory_mb == gpu_stat.total \div KibPerMb
        memory_ok ==
            CASE limit.memory_requirement_type = "Ignore" -> TRUE
              [] limit.memory_requirement_type = "AbsoluteMb" ->
                    free_memory_mb >= limit.memory_requirement_value
              [] OTHER ->
                    IF total_memory_mb = 0 THEN FALSE
                    ELSE f64_free_ge_required(free_memory_mb,
                                              limit.memory_requirement_value,
                                              total_memory_mb)
        utilization_ok ==
            IF limit.max_gpu_utilization < 0 \/ limit.max_gpu_utilization > 100
            THEN TRUE
            ELSE gpu_stat.core_usage <= limit.max_gpu_utilization
    IN  memory_ok /\ utilization_ok

\* What launch_task_process can come to for one task.
LaunchOutcomes == {"spawned", "launch_err", "spawn_err"}

\* The world the scheduler acts on: the state store and the child processes.
World(st, ch) == [st |-> st, children |-> ch]

FreePids(ch) == Pids \ DOMAIN ch

launch_task_process(w, task, outcome) ==
    CASE outcome = "launch_err" ->
            \* the log file cannot be created, or the command does not parse
            [ok |-> FALSE, w |-> w]
      [] outcome = "spawn_err" \/ FreePids(w.children) = {} ->
            [ok |-> FALSE,
             w |-> World(update_task_state(w.st, task.id, "Finished", None, None).st,
                         w.children)]
      [] OTHER ->
            LET pid == CHOOSE p \in FreePids(w.children) :
                           \A q \in FreePids(w.children) : p <= q
            IN  [ok |-> TRUE,
                 w |-> World(set_task_pid(w.st, task.id, Some(pid)).st,
                             Insert(w.children, pid,
                                    [task |-> task.id, alive |-> TRUE, term |-> FALSE]))]

\* can_run that lets no task start without a GPU.
can_run_gpu_only(task, available) ==
    task.gpu_require > 0 /\ Len(available) >= task.gpu_require

\* can_run and gpus_to_assign for one waiting task.
can_run(task, available) ==
    task.gpu_require = 0 \/ Len(available) >= task.gpu_require

\* gpus_to_assign that assigns no GPU.
gpus_to_assign_none(task, available) == <<>>


gpus_to_assign(task, available) ==
    IF task.gpu_require > 0 /\ can_run(task, available)
    THEN take(available, task.gpu_require) ELSE <<>>

\* available_gpus_for_queue.retain(|id| !assigned_set.contains(id))
retain_unassigned(available, assigned) ==
    SelectSeq(available, LAMBDA g : ~contains(assigned, g))

RECURSIVE place_waiting_stop_at_unfit(_, _, _, _, _, _)
\* place_waiting that ends the queue's pass at the first task that does not fit.
place_waiting_stop_at_unfit(w, current_queue, waiting_tasks_meta, available, count, outcome) ==
    IF waiting_tasks_meta = <<>> THEN w
    ELSE IF count >= current_queue.max_concurrent THEN w
    ELSE
      LET task == Head(waiting_tasks_meta)
          rest == Tail(waiting_tasks_meta)
          assigned == gpus_to_assign(task, available)
      IN  IF ~can_run(task, available)
          THEN w
          ELSE
            LET u == update_task_state(w.st, task.id, "Running", Some(assigned), None)
            IN  IF ~u.ok
                THEN place_waiting_stop_at_unfit(w, current_queue, rest, available, count,
                                                 outcome)
                ELSE
                  LET available1 == retain_unassigned(available, assigned)
                      updated_task == u.st.tasks[task.id]
                      l == launch_task_process(World(u.st, w.children), updated_task,
                                               outcome[task.id])
                  IN  IF l.ok
                      THEN place_waiting_stop_at_unfit(l.w, current_queue, rest,
                                                       available1, count + 1, outcome)
                      ELSE place_waiting_stop_at_unfit(
                              World(update_task_state(l.w.st, task.id, "Waiting",
                                                      None, None).st,
                                    l.w.children),
                              current_queue, rest, available1, count, outcome)


RECURSIVE place_waiting(_, _, _, _, _, _)
\* The loop over waiting_tasks_meta of one queue.
place_waiting(w, current_queue, waiting_tasks_meta, available, count, outcome) ==
    IF waiting_tasks_meta = <<>> THEN w
    ELSE IF count >= current_queue.max_concurrent THEN w
    ELSE
      LET task == Head(waiting_tasks_meta)
          rest == Tail(waiting_tasks_meta)
          assigned == gpus_to_assign(task, available)
      IN  IF ~can_run(task, available)
          THEN place_waiting(w, current_queue, rest, available, count, outcome)
          ELSE
            LET u == update_task_state(w.st, task.id, "Running", Some(assigned), None)
            IN  IF ~u.ok
                THEN place_waiting(w, current_queue, rest, available, count, outcome)
                ELSE
                  LET available1 == retain_unassigned(available, assigned)
                      updated_task == u.st.tasks[task.id]
                      l == launch_task_process(World(u.st, w.children), updated_task,
                                               outcome[task.id])
                  IN  IF l.ok
                      THEN place_waiting(l.w, current_queue, rest, available1,
                                         count + 1, outcome)
                      ELSE place_waiting(
                              World(update_task_state(l.w.st, task.id, "Waiting",
                                                      None, None).st,
                                    l.w.children),
                              current_queue, rest, available1, count, outcome)

RECURSIVE sort_by_priority_desc(_)
\* Vec::sort_by(|a, b| b.priority.cmp(&a.priority)): stable.
sort_by_priority_desc(metas) ==
    IF metas = <<>> THEN <<>>
    ELSE LET h == Head(metas)
             sorted == sort_by_priority_desc(Tail(metas))
             k == Cardinality({i \in 1..Len(sorted) : sorted[i].priority > h.priority})
         IN  SubSeq(sorted, 1, k) \o <<h>> \o SubSeq(sorted, k + 1, Len(sorted))

\* QueuePlan that also takes the GPUs no queue owns as the queue's own.
QueuePlan_with_unowned(st, queue_name, snap) ==
    LET current_queue == st.queues[queue_name]
        owned_gpu_ids_raw ==
            {g \in DOMAIN snap.gpu_stats \cup DOMAIN snap.gpu_allocations :
                /\ \/ g \notin DOMAIN snap.gpu_allocations
                   \/ snap.gpu_allocations[g] = None
                   \/ snap.gpu_allocations[g] = Some(current_queue.name)
                /\ g \notin snap.ignored_gpus}
        qualifying_owned_gpus ==
            {g \in owned_gpu_ids_raw :
                /\ g \in DOMAIN snap.gpu_stats
                /\ is_gpu_qualifying_for_queue(g, snap.gpu_stats[g],
                                               current_queue.resource_limit)}
        used_gpu_ids ==
            UNION {Elems(snap.tasks[t].gpu_ids) :
                      t \in Elems(current_queue.running_task_ids) \cap DOMAIN snap.tasks}
        waiting_ids ==
            SelectSeq(current_queue.waiting_task_ids,
                      LAMBDA t : t \in DOMAIN snap.tasks /\ snap.tasks[t].state = "Waiting")
    IN  [current_queue |-> current_queue,
         available |-> SetToSortedSeq(qualifying_owned_gpus \ used_gpu_ids),
         waiting |-> sort_by_priority_desc(
                         [i \in 1..Len(waiting_ids) |-> snap.tasks[waiting_ids[i]]]),
         count |-> Len(current_queue.running_task_ids)]


\* What one round of 'queue_loop computes before its loop over the waiting
\* tasks; snap holds the allocations, ignored set, stats and tasks read before
\* the loop over the queues.
QueuePlan(st, queue_name, snap) ==
    LET current_queue == st.queues[queue_name]
        owned_gpu_ids_raw ==
            {g \in DOMAIN snap.gpu_allocations :
                /\ snap.gpu_allocations[g] = Some(current_queue.name)
                /\ g \notin snap.ignored_gpus}
        qualifying_owned_gpus ==
            {g \in owned_gpu_ids_raw :
                /\ g \in DOMAIN snap.gpu_stats
                /\ is_gpu_qualifying_for_queue(g, snap.gpu_stats[g],
                                               current_queue.resource_limit)}
        used_gpu_ids ==
            UNION {Elems(snap.tasks[t].gpu_ids) :
                      t \in Elems(current_queue.running_task_ids) \cap DOMAIN snap.tasks}
        waiting_ids ==
            SelectSeq(current_queue.waiting_task_ids,
                      LAMBDA t : t \in DOMAIN snap.tasks /\ snap.tasks[t].state = "Waiting")
    IN  [current_queue |-> current_queue,
         available |-> SetToSortedSeq(qualifying_owned_gpus \ used_gpu_ids),
         waiting |-> sort_by_priority_desc(
                         [i \in 1..Len(waiting_ids) |-> snap.tasks[waiting_ids[i]]]),
         count |-> Len(current_queue.running_task_ids)]

schedule_queue(w, queue_name, snap, outcome) ==
    IF get_queue(w.st, queue_name) = None THEN w
    ELSE LET p == QueuePlan(w.st, queue_name, snap)
         IN  place_waiting(w, p.current_queue, p.waiting, p.available, p.count, outcome)

RECURSIVE schedule_queues(_, _, _, _)
schedule_queues(w, order, snap, outcome) ==
    IF order = <<>> THEN w
    ELSE schedule_queues(schedule_queue(w, Head(order), snap, outcome),
                         Tail(order), snap, outcome)

\* The orders get_all_queues followed by the stable sort on descending priority
\* can give: the HashMap's iteration order is arbitrary.
QueueOrders(qs) ==
    {o \in [1..Cardinality(DOMAIN qs) -> DOMAIN qs] :
        /\ \A i, j \in DOMAIN o : i # j => o[i] # o[j]
        /\ \A i, j \in DOMAIN o : i < j => qs[o[i]].priority >= qs[o[j]].priority}

\* The maps schedule_tasks reads before its loop over the queues.
Snapshot(st) ==
    [gpu_allocations |-> st.gpu_allocations, ignored_gpus |-> st.ignored_gpus,
     gpu_stats |-> st.gpu_stats, tasks |-> st.tasks]

schedule_tasks(w, order, outcome) == schedule_queues(w, order, Snapshot(w.st), outcome)

\* -------------------------------------------- scheduler.rs: reconciliation
RECURSIVE FinalizeAll(_, _)
FinalizeAll(st, task_ids) ==
    IF task_ids = <<>> THEN st
    ELSE LET t == Head(task_ids)
             st1 == update_task_state(st, t, "Finished", None, None).st
         IN  FinalizeAll(set_task_pid(st1, t, None).st, Tail(task_ids))

update_tasks(st, ch) ==
    LET tasks_to_update ==
            {t \in DOMAIN st.tasks :
                /\ st.tasks[t].state = "Running"
                /\ IsSome(st.tasks[t].pid)
                /\ ~ProcessExists(ch, Unwrap(st.tasks[t].pid))}
    IN  FinalizeAll(st, SetToSortedSeq(tasks_to_update))

\* ------------------------------------------------ state.rs: telemetry
StatErr == [free |-> -1, total |-> -1, core_usage |-> -1]

\* update_all_gpu_stats with the provider's per-GPU results.
update_all_gpu_stats(st, results) ==
    [st EXCEPT !.gpu_stats =
        LET current_gpu_ids == DOMAIN results
            keys == {g \in current_gpu_ids \ st.ignored_gpus :
                        results[g] # StatErr \/ g \in DOMAIN st.gpu_stats}
        IN  [g \in keys |-> IF results[g] # StatErr THEN results[g] ELSE st.gpu_stats[g]]]

\* -------------------------------------------- scheduler.rs: child monitor
\* The state the monitor writes for an exit status.
MonitorFinalState(exit_status_result) ==
    CASE exit_status_result = "success" -> "Finished"
      [] exit_status_result = "failure" -> "Finished"
      [] OTHER -> "Finished"

ExitStatuses == {"success", "failure", "wait_err"}

monitor_finalize(st, task_id, exit_status_result) ==
    LET st1 == update_task_state(st, task_id, MonitorFinalState(exit_status_result),
                                 None, None).st
    IN  set_task_pid(st1, task_id, None).st


\* ------------------------------------------------------------ the system
\* No handler and no placement pass is between two of its accesses to the state.
\* The accept loop runs, the shutdown channel holds false, and no connection
\* has a Daemon-Stop request.
NoStop == [pc |-> "idle", shutdown |-> FALSE, accept_loop |-> "running",
           reply_sent |-> FALSE]

NoLocal == [alloc |-> [c \in Conns |-> None], ignore |-> None, remove |-> None, create |-> None,
            place |-> None, stop |-> NoStop]

\* daemon/mod.rs start: a new DaemonState with the default queues.
Boot ==
    /\ LET st == ensure_default_queues_exist(EmptyInner)
       IN  /\ tasks = st.tasks
           /\ queues = st.queues
           /\ gpu_stats = st.gpu_stats
           /\ gpu_allocations = st.gpu_allocations
           /\ ignored_gpus = st.ignored_gpus
    /\ ID_COUNTER = 0
    /\ children = EmptyMap
    /\ sched_pc = "refresh"
    /\ requests = 0
    /\ local = NoLocal

\* Only generate_task_id reads the clock; elsewhere it stays at its start.
Init == Boot /\ now = MaxClock

\* ------------------------------------------------------- client requests
\* handle_connection takes one request off a connection.
Accept == requests < MaxRequests /\ requests' = requests + 1

Submit(gpu_num_required, queue_name) ==
    /\ Accept
    /\ ID_COUNTER < MaxTasks
    /\ LET task_id == NextTaskId(ID_COUNTER)
           r == handle_submit_command(Inner, task_id, gpu_num_required, queue_name)
       IN  Commit(r.st)
    /\ ID_COUNTER' = ID_COUNTER + 1
    /\ UNCHANGED <<now, local, children, sched_pc>>

TaskRun(task_id) ==
    /\ Accept
    /\ LET r == handle_task_run(Inner, task_id)
       IN  Commit(r.st)
    /\ UNCHANGED <<now, local, ID_COUNTER, children, sched_pc>>

TaskKill(task_id) ==
    /\ Accept
    /\ LET r == handle_task_kill(Inner, children, task_id)
       IN  children' = r.children
    /\ UNCHANGED <<now, local, tasks, queues, gpu_stats, gpu_allocations, ignored_gpus,
                   ID_COUNTER, sched_pc>>

TaskRemove(task_id) ==
    /\ Accept
    /\ LET r == handle_task_remove(Inner, task_id)
       IN  Commit(r.st)
    /\ UNCHANGED <<now, local, ID_COUNTER, children, sched_pc>>

QueueCreate(name, priority) ==
    /\ Accept
    /\ LET r == handle_queue_create(Inner, name, priority)
       IN  Commit(r.st)
    /\ UNCHANGED <<now, local, ID_COUNTER, children, sched_pc>>

QueueMerge(source, dest) ==
    /\ Accept
    /\ LET r == handle_queue_merge(Inner, source, dest)
       IN  Commit(r.st)
    /\ UNCHANGED <<now, local, ID_COUNTER, children, sched_pc>>

QueueMove(task_id, dest_queue) ==
    /\ Accept
    /\ LET r == handle_queue_move(Inner, task_id, dest_queue)
       IN  Commit(r.st)
    /\ UNCHANGED <<now, local, ID_COUNTER, children, sched_pc>>

GpuAllocate(gpu_id, queue) ==
    /\ Accept
    /\ LET r == handle_gpu_allocate(Inner, <<gpu_id>>, queue)
       IN  Commit(r.st)
    /\ UNCHANGED <<now, local, ID_COUNTER, children, sched_pc>>

GpuRelease(gpu_id) ==
    /\ Accept
    /\ LET r == handle_gpu_release(Inner, children, gpu_id)
       IN  Commit(r.st) /\ children' = r.children
    /\ UNCHANGED <<now, local, ID_COUNTER, sched_pc>>

GpuIgnore(gpu_id) ==
    /\ Accept
    /\ LET r == handle_gpu_ignore(Inner, gpu_id)
       IN  Commit(r.st)
    /\ UNCHANGED <<now, local, ID_COUNTER, children, sched_pc>>

GpuResetIgnored ==
    /\ Accept
    /\ LET r == handle_gpu_reset_ignored(Inner)
       IN  Commit(r.st)
    /\ UNCHANGED <<now, local, ID_COUNTER, children, sched_pc>>

\* ---------------------------------------------------- the scheduler loop
\* run_scheduler step 1: update_all_gpu_stats, which may fail as a whole.
SchedRefresh ==
    /\ sched_pc = "refresh"
    /\ \/ UNCHANGED gpu_stats
       \/ \E results \in [GpuIds -> StatProfiles \cup {StatErr}] :
              gpu_stats' = update_all_gpu_stats(Inner, results).gpu_stats
    /\ sched_pc' = "place"
    /\ UNCHANGED <<now, local, tasks, queues, gpu_allocations, ignored_gpus, ID_COUNTER, children,
                   requests>>

\* run_scheduler step 2: schedule_tasks.
SchedPlace ==
    /\ sched_pc = "place"
    /\ \E order \in QueueOrders(queues), outcome \in [TaskIds -> LaunchOutcomes] :
          LET w == schedule_tasks(World(Inner, children), order, outcome)
          IN  Commit(w.st) /\ children' = w.children
    /\ sched_pc' = "reconcile"
    /\ UNCHANGED <<now, local, ID_COUNTER, requests>>

\* run_scheduler step 3: update_tasks, then the sleep.
SchedReconcile ==
    /\ sched_pc = "reconcile"
    /\ Commit(update_tasks(Inner, children))
    /\ sched_pc' = "refresh"
    /\ UNCHANGED <<now, local, ID_COUNTER, children, requests>>

\* A child process ends; its monitor's child.wait() is about to return.
ChildExit(pid) ==
    /\ pid \in DOMAIN children
    /\ children[pid].alive
    /\ children' = [children EXCEPT ![pid].alive = FALSE]
    /\ UNCHANGED <<now, local, tasks, queues, gpu_stats, gpu_allocations, ignored_gpus,
                   ID_COUNTER, sched_pc, requests>>

\* The monitor of an ended child writes the task's final state and clears its pid.
MonitorFinalize(pid, exit_status_result) ==
    /\ pid \in DOMAIN children
    /\ ~children[pid].alive
    /\ Commit(monitor_finalize(Inner, children[pid].task, exit_status_result))
    /\ children' = Remove(children, pid)
    /\ UNCHANGED <<now, local, ID_COUNTER, sched_pc, requests>>

Next ==
    \/ \E g \in GpuReqs, q \in {None} \cup {Some(n) : n \in QueueNames} : Submit(g, q)
    \/ \E t \in TaskIds : TaskRun(t)
    \/ \E t \in TaskIds : TaskKill(t)
    \/ \E t \in TaskIds : TaskRemove(t)
    \/ \E n \in QueueNames, p \in CreatePriorities : QueueCreate(n, p)
    \/ \E a, b \in QueueNames : QueueMerge(a, b)
    \/ \E t \in TaskIds, n \in QueueNames : QueueMove(t, n)
    \/ \E g \in GpuIds, n \in QueueNames : GpuAllocate(g, n)
    \/ \E g \in GpuIds : GpuRelease(g)
    \/ \E g \in GpuIds : GpuIgnore(g)
    \/ GpuResetIgnored
    \/ SchedRefresh
    \/ SchedPlace
    \/ SchedReconcile
    \/ \E p \in Pids : ChildExit(p)
    \/ \E p \in Pids, e \in ExitStatuses : MonitorFinalize(p, e)

Spec == Init /\ [][Next]_vars


\* ----------------------------------- handlers and placement, access by access
\* Each method of DaemonState takes the lock for itself, and connections are
\* served by tasks of their own (daemon/mod.rs), so a handler's accesses to the
\* state interleave with those of other handlers and of the scheduler.

\* handle_gpu_allocate for one GPU id on connection c, up to the check that the
\* queue exists.
AllocateBegin(c, gpu_id, queue) ==
    /\ Accept
    /\ local.alloc[c] = None
    /\ local' = IF get_queue(Inner, queue) = None THEN local
                ELSE [local EXCEPT !.alloc[c] = Some([gpu |-> gpu_id, queue |-> queue,
                                                      pc |-> "check_ignored"])]
    /\ UNCHANGED <<now, tasks, queues, gpu_stats, gpu_allocations, ignored_gpus,
                   ID_COUNTER, children, sched_pc>>

\* state.get_ignored_gpus().await.contains(&gpu_id)
AllocateCheckIgnored(c) ==
    /\ IsSome(local.alloc[c])
    /\ Unwrap(local.alloc[c]).pc = "check_ignored"
    /\ local' = IF Unwrap(local.alloc[c]).gpu \in ignored_gpus
                THEN [local EXCEPT !.alloc[c] = None]
                ELSE [local EXCEPT !.alloc[c] = Some([Unwrap(@) EXCEPT !.pc = "check_allocation"])]
    /\ UNCHANGED <<now, tasks, queues, gpu_stats, gpu_allocations, ignored_gpus,
                   ID_COUNTER, children, sched_pc, requests>>

\* if let Some(Some(existing_queue)) = state.get_gpu_allocation(gpu_id).await
AllocateCheckAllocation(c) ==
    /\ IsSome(local.alloc[c])
    /\ Unwrap(local.alloc[c]).pc = "check_allocation"
    /\ LET a == get_gpu_allocation(Inner, Unwrap(local.alloc[c]).gpu)
       IN  local' = IF IsSome(a) /\ IsSome(Unwrap(a))
                    THEN [local EXCEPT !.alloc[c] = None]
                    ELSE [local EXCEPT !.alloc[c] = Some([Unwrap(@) EXCEPT !.pc = "set"])]
    /\ UNCHANGED <<now, tasks, queues, gpu_stats, gpu_allocations, ignored_gpus,
                   ID_COUNTER, children, sched_pc, requests>>

\* state.set_gpu_allocation(gpu_id, Some(queue.clone())).await
AllocateSet(c) ==
    /\ IsSome(local.alloc[c])
    /\ Unwrap(local.alloc[c]).pc = "set"
    /\ Commit(set_gpu_allocation(Inner, Unwrap(local.alloc[c]).gpu,
                                 Some(Unwrap(local.alloc[c]).queue)))
    /\ local' = [local EXCEPT !.alloc[c] = None]
    /\ UNCHANGED <<now, ID_COUNTER, children, sched_pc, requests>>

\* handle_gpu_ignore up to its check of the allocation.
IgnoreBegin(gpu_id) ==
    /\ Accept
    /\ local.ignore = None
    /\ LET a == get_gpu_allocation(Inner, gpu_id)
       IN  local' = IF IsSome(a) /\ IsSome(Unwrap(a)) THEN local
                    ELSE [local EXCEPT !.ignore = Some([gpu |-> gpu_id, pc |-> "set_ignore"])]
    /\ UNCHANGED <<now, tasks, queues, gpu_stats, gpu_allocations, ignored_gpus,
                   ID_COUNTER, children, sched_pc>>

\* state.set_gpu_ignore(gpu_id_u32).await
IgnoreSet ==
    /\ IsSome(local.ignore)
    /\ Unwrap(local.ignore).pc = "set_ignore"
    /\ Commit(set_gpu_ignore(Inner, Unwrap(local.ignore).gpu))
    /\ local' = [local EXCEPT !.ignore = Some([Unwrap(@) EXCEPT !.pc = "remove"])]
    /\ UNCHANGED <<now, ID_COUNTER, children, sched_pc, requests>>

\* state.remove_gpu_allocation(gpu_id_u32).await
IgnoreRemove ==
    /\ IsSome(local.ignore)
    /\ Unwrap(local.ignore).pc = "remove"
    /\ Commit(remove_gpu_allocation(Inner, Unwrap(local.ignore).gpu))
    /\ local' = [local EXCEPT !.ignore = None]
    /\ UNCHANGED <<now, ID_COUNTER, children, sched_pc, requests>>


\* handle_queue_create up to its test that no queue has the name.
CreateBegin(name, priority) ==
    /\ Accept
    /\ local.create = None
    /\ local' = IF get_queue(Inner, name) # None THEN local
                ELSE [local EXCEPT !.create = Some([name |-> name, priority |-> priority])]
    /\ UNCHANGED <<now, tasks, queues, gpu_stats, gpu_allocations, ignored_gpus,
                   ID_COUNTER, children, sched_pc>>

\* state.add_queue(new_queue).await
CreateCommit ==
    /\ IsSome(local.create)
    /\ Commit(add_queue(Inner, NewQueue(Unwrap(local.create).name,
                                        Unwrap(local.create).priority,
                                        DefaultMaxConcurrent, <<>>, <<>>)))
    /\ local' = [local EXCEPT !.create = None]
    /\ UNCHANGED <<now, ID_COUNTER, children, sched_pc, requests>>


\* handle_connection reads and decodes a Daemon-Stop request.
StopReceive ==
    /\ Accept
    /\ local.stop.accept_loop = "running"
    /\ local.stop.pc = "idle"
    /\ local' = [local EXCEPT !.stop.pc = "signal"]
    /\ UNCHANGED <<now, tasks, queues, gpu_stats, gpu_allocations, ignored_gpus,
                   ID_COUNTER, children, sched_pc>>

\* DaemonAction::Stop: shutdown_tx.send(true), which fails when start has
\* dropped the receiver; the reply is chosen, not yet written.
StopSignal ==
    /\ local.stop.pc = "signal"
    /\ local.stop.accept_loop # "exited"
    /\ local' = [local EXCEPT !.stop.shutdown = TRUE, !.stop.pc = "reply"]
    /\ UNCHANGED <<now, tasks, queues, gpu_stats, gpu_allocations, ignored_gpus,
                   ID_COUNTER, children, sched_pc, requests>>

\* The end of handle_connection: the reply is encoded, written and flushed.
\* The handler is a task of the runtime, which is gone once main has returned.
StopReply ==
    /\ local.stop.pc = "reply"
    /\ local.stop.accept_loop # "exited"
    /\ local' = [local EXCEPT !.stop.reply_sent = TRUE, !.stop.pc = "done"]
    /\ UNCHANGED <<now, tasks, queues, gpu_stats, gpu_allocations, ignored_gpus,
                   ID_COUNTER, children, sched_pc, requests>>

\* The select! of start wakes on shutdown_rx.changed() and leaves the loop.
AcceptLoopBreak ==
    /\ local.stop.accept_loop = "running"
    /\ local.stop.shutdown
    /\ local' = [local EXCEPT !.stop.accept_loop = "stopping"]
    /\ UNCHANGED <<now, tasks, queues, gpu_stats, gpu_allocations, ignored_gpus,
                   ID_COUNTER, children, sched_pc, requests>>

\* start removes the socket file and returns, main returns, and the runtime
\* drops the tasks it still holds.
DaemonExit ==
    /\ local.stop.accept_loop = "stopping"
    /\ local' = [local EXCEPT !.stop.accept_loop = "exited"]
    /\ UNCHANGED <<now, tasks, queues, gpu_stats, gpu_allocations, ignored_gpus,
                   ID_COUNTER, children, sched_pc, requests>>


\* handle_task_remove up to its test of the state of the task get_task gave.
RemoveBegin(task_id) ==
    /\ Accept
    /\ local.remove = None
    /\ local' = IF get_task(Inner, task_id) = None THEN local
                ELSE IF tasks[task_id].state = "Running" THEN local
                ELSE [local EXCEPT !.remove = Some([task |-> task_id, pc |-> "remove_task"])]
    /\ UNCHANGED <<now, tasks, queues, gpu_stats, gpu_allocations, ignored_gpus,
                   ID_COUNTER, children, sched_pc>>

\* state.remove_task(task_id).await
RemoveCommit ==
    /\ IsSome(local.remove)
    /\ Unwrap(local.remove).pc = "remove_task"
    /\ Commit(remove_task(Inner, Unwrap(local.remove).task).st)
    /\ local' = [local EXCEPT !.remove = None]
    /\ UNCHANGED <<now, ID_COUNTER, children, sched_pc, requests>>

\* schedule_tasks up to its loop over the queues: the sorted queues and the maps.
PlaceBegin ==
    /\ sched_pc = "place"
    /\ local.place = None
    /\ \E order \in QueueOrders(queues) :
          local' = [local EXCEPT !.place =
                       Some([pc |-> "queue", order |-> order, snap |-> Snapshot(Inner),
                             waiting |-> <<>>, available |-> <<>>, count |-> 0,
                             task |-> 0])]
    /\ UNCHANGED <<now, tasks, queues, gpu_stats, gpu_allocations, ignored_gpus,
                   ID_COUNTER, children, sched_pc, requests>>

\* The head of 'queue_loop for the next queue, or the end of schedule_tasks.
PlaceQueue ==
    /\ IsSome(local.place)
    /\ Unwrap(local.place).pc = "queue"
    /\ LET l == Unwrap(local.place)
       IN  IF l.order = <<>>
           THEN local' = [local EXCEPT !.place = None] /\ sched_pc' = "reconcile"
           ELSE /\ sched_pc' = sched_pc
                /\ IF get_queue(Inner, Head(l.order)) = None
                   THEN local' = [local EXCEPT !.place = Some([l EXCEPT !.order = Tail(@)])]
                   ELSE LET p == QueuePlan(Inner, Head(l.order), l.snap)
                        IN  local' = [local EXCEPT !.place =
                                Some([l EXCEPT !.pc = "task", !.waiting = p.waiting,
                                               !.available = p.available,
                                               !.count = p.count])]
    /\ UNCHANGED <<now, tasks, queues, gpu_stats, gpu_allocations, ignored_gpus,
                   ID_COUNTER, children, requests>>

\* The loop over waiting_tasks_meta up to update_task_state(.., Running, ..).
\* current_queue is the copy the head of 'queue_loop took; only its
\* max_concurrent is read from here on, and no operation changes that field.
PlaceMark ==
    /\ IsSome(local.place)
    /\ Unwrap(local.place).pc = "task"
    /\ LET l == Unwrap(local.place)
           next_queue == [l EXCEPT !.pc = "queue", !.order = Tail(@)]
       IN  IF l.waiting = <<>> \/ Head(l.order) \notin DOMAIN queues
           THEN local' = [local EXCEPT !.place = Some(next_queue)] /\ Commit(Inner)
           ELSE IF l.count >= queues[Head(l.order)].max_concurrent
           THEN local' = [local EXCEPT !.place = Some(next_queue)] /\ Commit(Inner)
           ELSE
             LET task == Head(l.waiting)
                 assigned == gpus_to_assign(task, l.available)
                 u == update_task_state(Inner, task.id, "Running", Some(assigned), None)
             IN  IF ~can_run(task, l.available) \/ ~u.ok
                 THEN /\ local' = [local EXCEPT !.place =
                                      Some([l EXCEPT !.waiting = Tail(@)])]
                      /\ Commit(Inner)
                 ELSE /\ local' = [local EXCEPT !.place =
                                      Some([l EXCEPT !.pc = "launch", !.task = task.id,
                                               !.waiting = Tail(@),
                                               !.available = retain_unassigned(@, assigned)])]
                      /\ Commit(u.st)
    /\ UNCHANGED <<now, ID_COUNTER, children, sched_pc, requests>>

\* state.get_task(task.id) and launch_task_process(&state, updated_task).
PlaceLaunch(outcome) ==
    /\ IsSome(local.place)
    /\ Unwrap(local.place).pc = "launch"
    /\ LET l == Unwrap(local.place)
       IN  IF get_task(Inner, l.task) = None
           THEN /\ local' = [local EXCEPT !.place = Some([l EXCEPT !.pc = "revert"])]
                /\ Commit(Inner) /\ children' = children
           ELSE LET r == launch_task_process(World(Inner, children), tasks[l.task], outcome)
                IN  /\ Commit(r.w.st)
                    /\ children' = r.w.children
                    /\ local' = [local EXCEPT !.place =
                                    Some(IF r.ok THEN [l EXCEPT !.pc = "task",
                                                                !.count = @ + 1]
                                                 ELSE [l EXCEPT !.pc = "revert"])]
    /\ UNCHANGED <<now, ID_COUNTER, sched_pc, requests>>

\* state.update_task_state(task.id, TaskState::Waiting, None) after a failed launch.
PlaceRevert ==
    /\ IsSome(local.place)
    /\ Unwrap(local.place).pc = "revert"
    /\ LET l == Unwrap(local.place)
       IN  /\ Commit(update_task_state(Inner, l.task, "Waiting", None, None).st)
           /\ local' = [local EXCEPT !.place = Some([l EXCEPT !.pc = "task"])]
    /\ UNCHANGED <<now, ID_COUNTER, children, sched_pc, requests>>

RaceNext ==
    \/ \E n \in QueueNames, p \in CreatePriorities : QueueCreate(n, p)
    \/ \E g \in GpuIds : GpuRelease(g)
    \/ GpuResetIgnored
    \/ \E c \in Conns, g \in GpuIds, n \in QueueNames : AllocateBegin(c, g, n)
    \/ \E c \in Conns : AllocateCheckIgnored(c)
    \/ \E c \in Conns : AllocateCheckAllocation(c)
    \/ \E c \in Conns : AllocateSet(c)
    \/ \E g \in GpuIds : IgnoreBegin(g)
    \/ IgnoreSet
    \/ IgnoreRemove

\* GPU.Allocate and GPU.Ignore taken one access to the state at a time, among
\* the other requests that change the allocation map and the ignored set.
RaceSpec == Init /\ [][RaceNext]_vars

LaunchNext ==
    \/ \E g \in GpuReqs, q \in {None} \cup {Some(n) : n \in QueueNames} : Submit(g, q)
    \/ \E g \in GpuIds, n \in QueueNames : GpuAllocate(g, n)
    \/ SchedRefresh
    \/ PlaceBegin
    \/ PlaceQueue
    \/ PlaceMark
    \/ \E o \in LaunchOutcomes : PlaceLaunch(o)
    \/ PlaceRevert
    \/ SchedReconcile
    \/ \E p \in Pids : ChildExit(p)
    \/ \E p \in Pids, e \in ExitStatuses : MonitorFinalize(p, e)

\* The scheduler loop with the placement pass taken one access to the state at
\* a time, among submissions and allocations.
LaunchSpec == Init /\ [][LaunchNext]_vars


\* A submission with the id generate_task_id gives at the current second.
IdSubmit ==
    /\ ID_COUNTER < MaxSubmissions
    /\ LET task_id == generate_task_id(now, ID_COUNTER)
           r == handle_submit_command(Inner, task_id, 0, None)
       IN  Commit(r.st)
    /\ ID_COUNTER' = ID_COUNTER + 1
    /\ UNCHANGED <<now, local, children, sched_pc, requests>>

\* The clock reaches its next second.
ClockTick ==
    /\ now < MaxClock
    /\ now' = now + 1
    /\ UNCHANGED <<tasks, queues, gpu_stats, gpu_allocations, ignored_gpus,
                   ID_COUNTER, children, sched_pc, requests, local>>

IdInit == Boot /\ now \in ClockStarts

IdNext == IdSubmit \/ ClockTick

\* Submissions alone, with the ids generate_task_id gives as the clock advances.
IdSpec == IdInit /\ [][IdNext]_vars

ReleaseNext ==
    \/ LaunchNext
    \/ \E g \in GpuIds : GpuRelease(g)

\* GPU.Release among the steps of the placement pass.
ReleaseSpec == Init /\ [][ReleaseNext]_vars

CreateNext ==
    \/ \E g \in GpuReqs, q \in {None} \cup {Some(n) : n \in QueueNames} : Submit(g, q)
    \/ \E t \in TaskIds, n \in QueueNames : QueueMove(t, n)
    \/ \E n \in QueueNames, p \in CreatePriorities : QueueCreate(n, p)
    \/ \E n \in QueueNames, p \in CreatePriorities : CreateBegin(n, p)
    \/ CreateCommit

\* Queue.Create taken one access to the state at a time, among submissions,
\* moves and other Creates.
CreateSpec == Init /\ [][CreateNext]_vars


\* listener.accept() while the loop of start runs: another request is served.
ServeRequest ==
    /\ local.stop.accept_loop = "running"
    /\ \/ \E g \in GpuReqs, q \in {None} \cup {Some(n) : n \in QueueNames} : Submit(g, q)
       \/ \E t \in TaskIds : TaskRun(t)
       \/ \E n \in QueueNames, p \in CreatePriorities : QueueCreate(n, p)

StopNext ==
    \/ ServeRequest
    \/ StopReceive
    \/ StopSignal
    \/ StopReply
    \/ AcceptLoopBreak
    \/ DaemonExit

\* A Daemon-Stop request among other requests, with the accept loop of start
\* and the connection handler as separate tasks.
StopSpec == Init /\ [][StopNext]_vars


\* run_scheduler step 2 for commands that launch: every launch_task_process
\* of the pass spawns its child.
PlaceSpawning ==
    /\ sched_pc = "place"
    /\ \E order \in QueueOrders(queues) :
          LET w == schedule_tasks(World(Inner, children), order,
                                  [t \in TaskIds |-> "spawned"])
          IN  Commit(w.st) /\ children' = w.children
    /\ sched_pc' = "reconcile"
    /\ UNCHANGED <<now, local, ID_COUNTER, requests>>

LifeNext ==
    \/ Submit(1, None)
    \/ \E t \in TaskIds : TaskRun(t)
    \/ \E g \in GpuIds : GpuAllocate(g, DEFAULT_RUNNING_QUEUE_NAME)
    \/ SchedRefresh
    \/ PlaceSpawning
    \/ SchedReconcile
    \/ \E p \in Pids : ChildExit(p)
    \/ \E p \in Pids, e \in ExitStatuses : MonitorFinalize(p, e)

\* The placement step of run_scheduler's loop body is taken.  Among the steps
\* of LifeNext exactly those of PlaceSpawning do this, and PlaceSpawning is
\* enabled whenever sched_pc = "place".
PlaceTurn == sched_pc = "place" /\ sched_pc' = "reconcile"

\* The life of tasks that need one GPU, submitted without a queue and sent to
\* running_queue by Task.Run.  run_scheduler loops for ever, so each of its
\* steps is taken when its turn has come; a monitor returns from child.wait()
\* once its child has ended; the children end.
LifeSpec ==
    /\ Init
    /\ [][LifeNext]_vars
    /\ WF_vars(SchedRefresh)
    /\ WF_sched_pc(PlaceTurn)
    /\ WF_vars(SchedReconcile)
    /\ WF_vars(\E p \in Pids : ChildExit(p))
    /\ WF_vars(\E p \in Pids, e \in ExitStatuses : MonitorFinalize(p, e))


RemoveNext ==
    \/ \E g \in GpuReqs, q \in {None} \cup {Some(n) : n \in QueueNames} : Submit(g, q)
    \/ \E t \in TaskIds, n \in QueueNames : QueueMove(t, n)
    \/ \E t \in TaskIds : RemoveBegin(t)
    \/ RemoveCommit
    \/ SchedRefresh
    \/ SchedPlace
    \/ SchedReconcile
    \/ \E p \in Pids : ChildExit(p)
    \/ \E p \in Pids, e \in ExitStatuses : MonitorFinalize(p, e)

\* Task.Remove taken one access to the state at a time, among submissions,
\* moves and the scheduler loop.
RemoveSpec == Init /\ [][RemoveNext]_vars

\* ------------------------------------------------------------- properties
RunningTasks == {t \in DOMAIN tasks : tasks[t].state = "Running"}
TerminalStates == {"Finished", "Failed"}
InLists(queue, task_id) ==
    contains(queue.waiting_task_ids, task_id) \/ contains(queue.running_task_ids, task_id)

\* C1: no GPU index is in the gpu_ids of two different tasks that are both
\* Running.
C1_NoGpuSharedByRunning ==
    \A t1, t2 \in RunningTasks :
        t1 # t2 => Elems(tasks[t1].gpu_ids) \cap Elems(tasks[t2].gpu_ids) = {}

\* Two Running tasks on one GPU: one in the queue that owns the GPU, the other
\* moved out of it while Running.
C1_SharedAfterMove ==
    \E t1, t2 \in RunningTasks : \E g \in DOMAIN gpu_allocations :
        /\ t1 # t2
        /\ g \in Elems(tasks[t1].gpu_ids) \cap Elems(tasks[t2].gpu_ids)
        /\ gpu_allocations[g] = Some(DEFAULT_RUNNING_QUEUE_NAME)
        /\ tasks[t1].queue = DEFAULT_WAITING_QUEUE_NAME
        /\ tasks[t2].queue = DEFAULT_RUNNING_QUEUE_NAME

\* C2: for every queue Q, each id in Q.waiting_task_ids is an existing task in
\* state Waiting whose queue field is Q, and each id in Q.running_task_ids is an
\* existing task in state Running whose queue field is Q.
C2_QueueListsNameTheirTasks ==
    \A q \in DOMAIN queues :
        /\ \A t \in Elems(queues[q].waiting_task_ids) :
              t \in DOMAIN tasks /\ tasks[t].state = "Waiting" /\ tasks[t].queue = q
        /\ \A t \in Elems(queues[q].running_task_ids) :
              t \in DOMAIN tasks /\ tasks[t].state = "Running" /\ tasks[t].queue = q

C2_RunningInWaitingList ==
    \E q \in DOMAIN queues : \E t \in Elems(queues[q].waiting_task_ids) :
        t \in DOMAIN tasks /\ tasks[t].state = "Running" /\ tasks[t].queue = q

\* C3: a task whose state is Finished or Failed is in no queue's
\* waiting_task_ids and in no queue's running_task_ids.
C3_TerminalInNoList ==
    \A t \in DOMAIN tasks :
        tasks[t].state \in TerminalStates =>
            \A q \in DOMAIN queues : ~InLists(queues[q], t)

C3_FinishedInWaitingList ==
    \E t \in DOMAIN tasks : \E q \in DOMAIN queues :
        /\ tasks[t].state = "Finished"
        /\ tasks[t].queue = q
        /\ contains(queues[q].waiting_task_ids, t)

\* C4: for every queue Q, the number of tasks in state Running whose queue
\* field is Q is at most Q.max_concurrent.
C4_RunningWithinMaxConcurrent ==
    \A q \in DOMAIN queues :
        Cardinality({t \in RunningTasks : tasks[t].queue = q}) <= queues[q].max_concurrent

C4_TwoRunningInQueueOfOne ==
    \E q \in DOMAIN queues :
        /\ queues[q].max_concurrent = 1
        /\ Cardinality({t \in RunningTasks : tasks[t].queue = q}) = 2

\* C5: every Running task has exactly gpu_require assigned GPU indices, they
\* are pairwise distinct, and none of them is in the ignored set.
C5_RunningHoldsItsGpus ==
    \A t \in RunningTasks :
        /\ Len(tasks[t].gpu_ids) = tasks[t].gpu_require
        /\ Cardinality(Elems(tasks[t].gpu_ids)) = Len(tasks[t].gpu_ids)
        /\ Elems(tasks[t].gpu_ids) \cap ignored_gpus = {}

C5_RunningOnIgnoredGpu ==
    \E t \in RunningTasks : \E g \in Elems(tasks[t].gpu_ids) :
        /\ g \in ignored_gpus
        /\ IsSome(tasks[t].pid)
        /\ g \notin DOMAIN gpu_allocations

\* C6: no GPU index is both in the ignored set and mapped to Some(queue) in the
\* allocation map, whatever the interleaving of GPU.Allocate and GPU.Ignore.
C6_IgnoredNotAllocated ==
    \A g \in ignored_gpus :
        ~(g \in DOMAIN gpu_allocations /\ IsSome(gpu_allocations[g]))

C6_IgnoredAndAllocatedAtRest ==
    /\ local = NoLocal
    /\ \E g \in ignored_gpus : g \in DOMAIN gpu_allocations /\ IsSome(gpu_allocations[g])

\* C7: every task's queue field names a queue that exists in the queue map.
C7_TaskQueueExists == \A t \in DOMAIN tasks : tasks[t].queue \in DOMAIN queues

\* The only task submitted named a queue that did not exist, which add_task
\* created, and was then moved to running_queue.
C7_MovedOutOfImplicitQueue ==
    /\ ID_COUNTER = 1
    /\ UserQueue \in DOMAIN queues
    /\ queues[UserQueue].priority = DefaultQueuePriority
    /\ 1 \in DOMAIN tasks
    /\ tasks[1].queue = DEFAULT_RUNNING_QUEUE_NAME

\* C8: no step takes a task to Running while its queue field is waiting_queue.
C8_NoPlacementFromWaitingQueue ==
    [][\A t \in DOMAIN tasks :
          (/\ t \in DOMAIN tasks'
           /\ tasks[t].state # "Running"
           /\ tasks'[t].state = "Running")
          => tasks'[t].queue # DEFAULT_WAITING_QUEUE_NAME]_vars

\* A task submitted without a queue runs in waiting_queue: no Task.Run, no move.
C8_RunningInWaitingQueue ==
    \E t \in RunningTasks :
        /\ tasks[t].queue = DEFAULT_WAITING_QUEUE_NAME
        /\ contains(queues[DEFAULT_WAITING_QUEUE_NAME].running_task_ids, t)
        /\ tasks[t].gpu_require = 0
        /\ requests = 1

AllowedTransitions ==
    {<<"Waiting", "Running">>, <<"Running", "Finished">>,
     <<"Running", "Failed">>, <<"Waiting", "Failed">>}

\* C9: every change of a task's state is Waiting to Running, Running to
\* Finished, Running to Failed or Waiting to Failed.
C9_OnlyAllowedTransitions ==
    [][\A t \in DOMAIN tasks :
          (t \in DOMAIN tasks' /\ tasks'[t].state # tasks[t].state)
          => <<tasks[t].state, tasks'[t].state>> \in AllowedTransitions]_vars

\* The placement pass is about to put a Finished task back to Waiting.
C9_RevertOfFinished ==
    /\ IsSome(local.place)
    /\ Unwrap(local.place).pc = "revert"
    /\ Unwrap(local.place).task \in DOMAIN tasks
    /\ tasks[Unwrap(local.place).task].state = "Finished"

\* C10: Task.Run(id) is acknowledged only for a task whose queue field is
\* waiting_queue; it then leaves the task with queue field running_queue, in
\* running_queue's waiting list, in neither list of waiting_queue and in state
\* Waiting.  In every other case the reply is Error and the state is unchanged.
C10_TaskRun ==
    \A t \in TaskIds :
        LET r == handle_task_run(Inner, t)
        IN  IF r.reply = "Ack"
            THEN /\ t \in DOMAIN tasks
                 /\ tasks[t].queue = DEFAULT_WAITING_QUEUE_NAME
                 /\ r.st.tasks[t].queue = DEFAULT_RUNNING_QUEUE_NAME
                 /\ contains(r.st.queues[DEFAULT_RUNNING_QUEUE_NAME].waiting_task_ids, t)
                 /\ ~InLists(r.st.queues[DEFAULT_WAITING_QUEUE_NAME], t)
                 /\ r.st.tasks[t].state = "Waiting"
            ELSE r.st = Inner

\* Task.Run acknowledges a task of waiting_queue that is not Waiting.
C10_AckForFinishedTask ==
    \E t \in DOMAIN tasks :
        /\ tasks[t].queue = DEFAULT_WAITING_QUEUE_NAME
        /\ tasks[t].state = "Finished"
        /\ handle_task_run(Inner, t).reply = "Ack"


\* C11: a task that leaves the task map is not Running at that moment and its
\* id is then in no queue list; Task.Remove on a Running task replies Error and
\* changes nothing.
C11_TaskRemove ==
    [][/\ \A t \in DOMAIN tasks :
             tasks[t].state = "Running" =>
                 handle_task_remove(Inner, t) = [reply |-> "Error", st |-> Inner]
       /\ \A t \in DOMAIN tasks :
             t \notin DOMAIN tasks' =>
                 /\ tasks[t].state # "Running"
                 /\ \A q \in DOMAIN queues' : ~InLists(queues'[q], t)]_vars

\* A task is gone from the task map while its process runs.
C11_RemovedWhileRunning ==
    \E pid \in DOMAIN children :
        /\ children[pid].alive
        /\ children[pid].task \notin DOMAIN tasks

\* C12: Task.Kill on a task that is not Running, or that is Running without a
\* pid, replies Error.  (handle_task_kill returns no state: it writes neither
\* the task's state, its queue field nor a queue list.)
C12_TaskKill ==
    \A t \in DOMAIN tasks :
        (tasks[t].state # "Running" \/ tasks[t].pid = None) =>
            handle_task_kill(Inner, children, t).reply = "Error"

\* Task.Kill on a task that is Waiting or in a terminal state is acknowledged.
C12_AckForNonRunning ==
    \E t \in DOMAIN tasks :
        /\ tasks[t].state \in {"Waiting", "Finished"}
        /\ handle_task_kill(Inner, children, t) = [reply |-> "Ack", children |-> children]

\* C13: no step allocates a GPU that is in the ignored set, and no step changes
\* a GPU's allocation from Some(Q') to Some(Q) with Q' different from Q, also
\* when two GPU.Allocate requests for the same GPU run concurrently.
C13_AllocateRejects ==
    [][\A g \in GpuIds :
          (/\ g \in DOMAIN gpu_allocations'
           /\ IsSome(gpu_allocations'[g])
           /\ (g \notin DOMAIN gpu_allocations \/ gpu_allocations[g] # gpu_allocations'[g]))
          => /\ g \notin ignored_gpus
             /\ ~(g \in DOMAIN gpu_allocations /\ IsSome(gpu_allocations[g]))]_vars

\* A GPU.Allocate that passed its checks is about to write its queue over the
\* different queue another GPU.Allocate has written meanwhile.
C13_AllocateOverOtherQueue ==
    \E c \in Conns :
        /\ IsSome(local.alloc[c])
        /\ Unwrap(local.alloc[c]).pc = "set"
        /\ LET g == Unwrap(local.alloc[c]).gpu
           IN  /\ g \notin ignored_gpus
               /\ g \in DOMAIN gpu_allocations
               /\ IsSome(gpu_allocations[g])
               /\ Unwrap(gpu_allocations[g]) # Unwrap(local.alloc[c]).queue

\* C14 as stated: for every GPU id and existing queue Q, the second of two
\* GPU.Allocate(id, Q) in a row replies Ack and leaves the state equal to the
\* state after the first.
C14_SecondAllocateAcks ==
    \A g \in GpuIds, q \in DOMAIN queues :
        LET r1 == handle_gpu_allocate(Inner, <<g>>, q)
            r2 == handle_gpu_allocate(r1.st, <<g>>, q)
        IN  r2.reply = "Ack" /\ r2.st = r1.st

\* C14: for every GPU id and existing queue Q, the second of two
\* GPU.Allocate(id, Q) in a row leaves the state equal to the state after the
\* first and replies as the first did: Ack when the id is not ignored and not
\* owned by another queue (the id is then mapped to Some(Q)), Error otherwise.
C14_AllocateIdempotent ==
    \A g \in GpuIds, q \in DOMAIN queues :
        LET r1 == handle_gpu_allocate(Inner, <<g>>, q)
            r2 == handle_gpu_allocate(r1.st, <<g>>, q)
            a == get_gpu_allocation(Inner, g)
            rejected == \/ g \in ignored_gpus
                        \/ IsSome(a) /\ IsSome(Unwrap(a)) /\ Unwrap(Unwrap(a)) # q
        IN  /\ r2.st = r1.st
            /\ r2.reply = r1.reply
            /\ r1.reply = (IF rejected THEN "Error" ELSE "Ack")
            /\ ~rejected => get_gpu_allocation(r1.st, g) = Some(Some(q))
            /\ rejected => r1.st = Inner

\* A GPU.Allocate(id, Q) has allocated id to Q, and the same request again is
\* acknowledged and changes nothing.
C14_AllocatedThenRepeated ==
    \E g \in GpuIds, q \in DOMAIN queues :
        /\ get_gpu_allocation(Inner, g) = Some(Some(q))
        /\ handle_gpu_allocate(Inner, <<g>>, q) = [reply |-> "Ack", st |-> Inner]

\* C15: a GPU mapped to Some(Q) in the allocation map is in Q's owned-GPU set
\* (allocated_gpus), in particular after the GPU.Allocate that allocated it.
C15_AllocatedGpuInQueueSet ==
    \A g \in DOMAIN gpu_allocations :
        IsSome(gpu_allocations[g]) =>
            /\ Unwrap(gpu_allocations[g]) \in DOMAIN queues
            /\ contains(queues[Unwrap(gpu_allocations[g])].allocated_gpus, g)

\* GPU.Allocate has mapped a GPU to a queue whose owned-GPU set is empty.
C15_AllocatedButNotOwned ==
    \E g \in DOMAIN gpu_allocations, q \in DOMAIN queues :
        /\ gpu_allocations[g] = Some(q)
        /\ queues[q].allocated_gpus = <<>>

\* C16: GPU.Release(id) sends the terminate signal to the process of every task
\* that is Running with id among its GPUs (unless the process has already
\* exited), changes nothing but the allocation of id, which it sets to
\* present-and-None, and replies Ack.
C16_ReleaseKillsUsers ==
    \A g \in GpuIds :
        LET r == handle_gpu_release(Inner, children, g)
        IN  /\ r.reply = "Ack"
            /\ r.st = [Inner EXCEPT !.gpu_allocations = Insert(gpu_allocations, g, None)]
            /\ \A t \in DOMAIN tasks :
                  (tasks[t].state = "Running" /\ contains(tasks[t].gpu_ids, g)) =>
                      /\ IsSome(tasks[t].pid)
                      /\ Unwrap(tasks[t].pid) \in DOMAIN children
                      /\ children[Unwrap(tasks[t].pid)].alive =>
                             r.children[Unwrap(tasks[t].pid)].term

\* The GPU has been released, and a task that was Running on it all along has a
\* live process that no terminate signal has reached.
C16_RunningOnReleasedGpu ==
    \E g \in DOMAIN gpu_allocations, pid \in DOMAIN children :
        /\ gpu_allocations[g] = None
        /\ children[pid].alive
        /\ ~children[pid].term
        /\ children[pid].task \in DOMAIN tasks
        /\ tasks[children[pid].task].state = "Running"
        /\ contains(tasks[children[pid].task].gpu_ids, g)

\* C17: GPU.Ignore(id) on a GPU whose allocation is Some(queue) replies Error
\* and changes nothing; on a GPU that is not owned it replies Ack, adds id to
\* the ignored set and removes id from the allocation map, and changes nothing
\* else.
C17_GpuIgnore ==
    \A g \in GpuIds :
        LET a == get_gpu_allocation(Inner, g)
            r == handle_gpu_ignore(Inner, g)
        IN  IF IsSome(a) /\ IsSome(Unwrap(a))
            THEN r = [reply |-> "Error", st |-> Inner]
            ELSE /\ r.reply = "Ack"
                 /\ r.st = [Inner EXCEPT !.ignored_gpus = ignored_gpus \cup {g},
                                         !.gpu_allocations = Remove(gpu_allocations, g)]
                 /\ g \in r.st.ignored_gpus
                 /\ g \notin DOMAIN r.st.gpu_allocations

\* A released GPU (present in the allocation map with None) that GPU.Ignore
\* acknowledges and takes out of the map.
C17_IgnoreOfReleasedGpu ==
    \E g \in GpuIds :
        /\ get_gpu_allocation(Inner, g) = Some(None)
        /\ g \notin ignored_gpus
        /\ handle_gpu_ignore(Inner, g).reply = "Ack"
        /\ get_gpu_allocation(handle_gpu_ignore(Inner, g).st, g) = None

C19_IdsNonZeroAndUnique ==
    [][ID_COUNTER' # ID_COUNTER =>
          /\ generate_task_id(now, ID_COUNTER) # 0
          /\ generate_task_id(now, ID_COUNTER) \notin DOMAIN tasks
          /\ Cardinality(DOMAIN tasks') = Cardinality(DOMAIN tasks) + 1]_vars

\* More submissions have been acknowledged than there are tasks: one took the
\* id of an earlier task and replaced it.
C19_SubmissionOverwritten ==
    /\ ID_COUNTER > CounterModulus
    /\ Cardinality(DOMAIN tasks) < ID_COUNTER

\* The queue add_task creates for a task of an unknown queue.
C20_ImplicitQueue(name, task_id) ==
    [name |-> name, max_concurrent |-> 1, priority |-> 10,
     waiting_task_ids |-> <<task_id>>, running_task_ids |-> <<>>,
     allocated_gpus |-> <<>>,
     resource_limit |-> [memory_requirement_type |-> "Ignore",
                         memory_requirement_value |-> 0,
                         max_gpu_utilization |-> -1]]

C21_CreateKeepsExistingQueue ==
    [][/\ \A n \in DOMAIN queues, p \in CreatePriorities :
             handle_queue_create(Inner, n, p) = [reply |-> "Error", st |-> Inner]
       /\ (IsSome(local.create) /\ local'.create = None) =>
             \A n \in DOMAIN queues : queues'[n] = queues[n]]_vars

\* A Waiting task whose queue a Queue.Create has replaced: the queue has the
\* priority of the Create and the task's id is in neither of its lists.
C21_WaitingTaskOutOfReplacedQueue ==
    \E t \in DOMAIN tasks :
        /\ tasks[t].state = "Waiting"
        /\ tasks[t].queue = UserQueue
        /\ UserQueue \in DOMAIN queues
        /\ queues[UserQueue].priority \in CreatePriorities
        /\ ~InLists(queues[UserQueue], t)
        /\ local = NoLocal

\* C22: Queue.Merge(src, dst) with src and dst existing and different replies
\* Ack and leaves no task of src with queue field src and none of their ids in
\* src's waiting or running list; with src = dst or a missing queue it replies
\* Error and changes nothing.
C22_QueueMerge ==
    \A src \in QueueNames, dst \in QueueNames :
        LET r == handle_queue_merge(Inner, src, dst)
        IN  IF src \in DOMAIN queues /\ dst \in DOMAIN queues /\ src # dst
            THEN /\ r.reply = "Ack"
                 /\ \A t \in DOMAIN tasks :
                       tasks[t].queue = src =>
                           /\ r.st.tasks[t].queue = dst
                           /\ ~InLists(r.st.queues[src], t)
            ELSE r = [reply |-> "Error", st |-> Inner]

\* A task of src whose id Queue.Merge(src, dst) acknowledges and leaves in a
\* list of src.
C22_MergedTaskLeftInSource ==
    \E src \in DOMAIN queues, dst \in DOMAIN queues, t \in DOMAIN tasks :
        /\ src # dst
        /\ tasks[t].queue = src
        /\ handle_queue_merge(Inner, src, dst).reply = "Ack"
        /\ handle_queue_merge(Inner, src, dst).st.tasks[t].queue = dst
        /\ InLists(handle_queue_merge(Inner, src, dst).st.queues[src], t)

\* C23: Queue.Move(T, Y) on a task T that is Running in queue X with a pid, for
\* an existing queue Y other than X, replies Ack and leaves T with queue field
\* Y, its id in Y's waiting_task_ids and in none of X's lists, and its state,
\* pid and assigned GPUs as they were.
C23_MoveOfRunningTask ==
    \A t \in DOMAIN tasks, y \in DOMAIN queues :
        (tasks[t].state = "Running" /\ IsSome(tasks[t].pid) /\ tasks[t].queue # y) =>
            LET x == tasks[t].queue
                r == handle_queue_move(Inner, t, y)
            IN  /\ r.reply = "Ack"
                /\ r.st.tasks[t] = [tasks[t] EXCEPT !.queue = y]
                /\ contains(r.st.queues[y].waiting_task_ids, t)
                /\ x \in DOMAIN r.st.queues => ~InLists(r.st.queues[x], t)

\* A Running task with a pid that Queue.Move takes to another queue while its
\* id stays in a list of the queue it leaves.
C23_MovedTaskLeftInOldQueue ==
    \E t \in DOMAIN tasks, y \in DOMAIN queues :
        /\ tasks[t].state = "Running"
        /\ IsSome(tasks[t].pid)
        /\ tasks[t].queue # y
        /\ handle_queue_move(Inner, t, y).reply = "Ack"
        /\ handle_queue_move(Inner, t, y).st.tasks[t].queue = y
        /\ InLists(handle_queue_move(Inner, t, y).st.queues[tasks[t].queue], t)

\* C24: after boot and before any client request, waiting_queue and
\* running_queue exist and running_queue owns every detected non-ignored GPU:
\* each is mapped to Some(running_queue) in the allocation map and is in
\* running_queue's allocated_gpus, and when a GPU is detected
\* running_queue.max_concurrent is the number of those GPUs.
C24_RunningQueueOwnsGpusAtBoot ==
    requests = 0 =>
        LET detected == (DOMAIN gpu_stats) \ ignored_gpus
        IN  /\ DEFAULT_WAITING_QUEUE_NAME \in DOMAIN queues
            /\ DEFAULT_RUNNING_QUEUE_NAME \in DOMAIN queues
            /\ \A g \in detected :
                  /\ get_gpu_allocation(Inner, g) = Some(Some(DEFAULT_RUNNING_QUEUE_NAME))
                  /\ contains(queues[DEFAULT_RUNNING_QUEUE_NAME].allocated_gpus, g)
            /\ detected # {} =>
                  queues[DEFAULT_RUNNING_QUEUE_NAME].max_concurrent = Cardinality(detected)

\* The daemon has booted and detected a GPU, no client has sent a request, and
\* the GPU is not in the allocation map nor in running_queue's allocated_gpus.
C24_DetectedGpuUnowned ==
    /\ requests = 0
    /\ \E g \in DOMAIN gpu_stats :
          /\ g \notin ignored_gpus
          /\ g \notin DOMAIN gpu_allocations
          /\ queues[DEFAULT_RUNNING_QUEUE_NAME].allocated_gpus = <<>>

\* C25: the daemon never terminates with the reply to a Daemon-Stop request
\* unsent: when start has returned and the process shuts down, the reply has
\* been written to the client.
C25_StopReplyBeforeExit ==
    local.stop.accept_loop = "exited" => local.stop.reply_sent

\* The daemon has shut down while the handler of the Stop request still holds
\* its reply.
C25_ExitedWithReplyUnsent ==
    /\ local.stop.accept_loop = "exited"
    /\ local.stop.pc = "reply"
    /\ ~local.stop.reply_sent

\* GPU 0 is detected, not ignored, qualifying for running_queue and mapped to
\* Some(running_queue), and task t waits in running_queue for one GPU.
C26_WaitingForGpu(t) ==
    /\ t \in DOMAIN tasks
    /\ tasks[t].state = "Waiting"
    /\ tasks[t].queue = DEFAULT_RUNNING_QUEUE_NAME
    /\ tasks[t].gpu_require = 1
    /\ contains(queues[DEFAULT_RUNNING_QUEUE_NAME].waiting_task_ids, t)
    /\ get_gpu_allocation(Inner, 0) = Some(Some(DEFAULT_RUNNING_QUEUE_NAME))
    /\ 0 \notin ignored_gpus
    /\ 0 \in DOMAIN gpu_stats
    /\ is_gpu_qualifying_for_queue(0, gpu_stats[0],
                                   queues[DEFAULT_RUNNING_QUEUE_NAME].resource_limit)

C26_RunningOnGpu(t) ==
    /\ t \in DOMAIN tasks
    /\ tasks[t].state = "Running"
    /\ tasks[t].gpu_ids = <<0>>
    /\ IsSome(tasks[t].pid)

C26_FinishedOnGpu(t) ==
    /\ t \in DOMAIN tasks
    /\ tasks[t].state = "Finished"
    /\ tasks[t].gpu_ids = <<0>>
    /\ tasks[t].pid = None

\* C26: a task submitted with gpus=1 and no queue is Waiting in waiting_queue;
\* Task.Run on it leaves it Waiting in running_queue; with GPU 0 qualifying and
\* owned by running_queue it eventually is Running with assigned GPUs [0] and
\* a pid, and from then on it eventually is Finished with the pid cleared and
\* assigned GPUs still [0].
C26_TaskLife ==
    /\ [](LET t == NextTaskId(ID_COUNTER)
              s == handle_submit_command(Inner, t, 1, None).st
              r == handle_task_run(s, t)
          IN  /\ s.tasks[t].state = "Waiting"
              /\ s.tasks[t].queue = DEFAULT_WAITING_QUEUE_NAME
              /\ contains(s.queues[DEFAULT_WAITING_QUEUE_NAME].waiting_task_ids, t)
              /\ r.reply = "Ack"
              /\ r.st.tasks[t].state = "Waiting"
              /\ r.st.tasks[t].queue = DEFAULT_RUNNING_QUEUE_NAME
              /\ contains(r.st.queues[DEFAULT_RUNNING_QUEUE_NAME].waiting_task_ids, t))
    /\ \A t \in TaskIds : C26_WaitingForGpu(t) ~> C26_RunningOnGpu(t)
    /\ \A t \in TaskIds : C26_RunningOnGpu(t) ~> C26_FinishedOnGpu(t)

\* A task that went from waiting_queue to running_queue by Task.Run has run on
\* GPU 0 and is Finished, its pid cleared and GPU 0 still in its assigned GPUs.
C26_FinishedAfterRun ==
    \E t \in DOMAIN tasks :
        /\ C26_FinishedOnGpu(t)
        /\ tasks[t].queue = DEFAULT_RUNNING_QUEUE_NAME
        /\ tasks[t].gpu_require = 1
        /\ children = EmptyMap

\* ------------------------------------------ the resource-limit memory filter
\* ResourceLimit{Percentage, value, -1.0}
PercentageLimit(value) ==
    [memory_requirement_type |-> "Percentage",
     memory_requirement_value |-> value,
     max_gpu_utilization |-> -1]

\* The limits a client sends: percentages of the memory free (one of them out
\* of range), an absolute amount, and a bound on the utilization.
LimitChoices ==
    {PercentageLimit(50), PercentageLimit(5), PercentageLimit(101),
     PercentageLimit(7),
     [memory_requirement_type |-> "AbsoluteMb", memory_requirement_value |-> 8,
      max_gpu_utilization |-> 50],
     [memory_requirement_type |-> "Ignore", memory_requirement_value |-> 0,
      max_gpu_utilization |-> 49]}

\* A GPU of 10,000 MB with 1,000 MB free.
LowFreeStat ==
    [free |-> 1000 * KibPerMb, total |-> 10000 * KibPerMb, core_usage |-> 50]

\* The telemetry of the hosts of LimitSpec: LowFreeStat, a GPU of 100 MB with
\* 7 MB free, one with half a MB more free, and one that reports no memory.
LimitStats ==
    {LowFreeStat,
     [free |-> 7 * KibPerMb, total |-> 100 * KibPerMb, core_usage |-> 50],
     [free |-> 7 * KibPerMb + 512, total |-> 100 * KibPerMb + 512, core_usage |-> 0],
     [free |-> 512, total |-> 512, core_usage |-> 100]}

\* Queue.SetResourceLimit: the request's validation, then
\* update_queue_resource_limit.
handle_queue_set_resource_limit(st, queue_name, limit) ==
    IF /\ limit.memory_requirement_type = "Percentage"
       /\ limit.memory_requirement_value \notin 0..100
    THEN [reply |-> "Error", st |-> st]
    ELSE IF /\ limit.memory_requirement_type = "AbsoluteMb"
            /\ limit.memory_requirement_value <= 0
         THEN [reply |-> "Error", st |-> st]
    ELSE LET r == update_queue_resource_limit(st, queue_name, limit)
         IN  [reply |-> IF r.ok THEN "Ack" ELSE "Error", st |-> r.st]

QueueSetResourceLimit(queue_name, limit) ==
    /\ Accept
    /\ LET r == handle_queue_set_resource_limit(Inner, queue_name, limit)
       IN  Commit(r.st)
    /\ UNCHANGED <<now, local, ID_COUNTER, children, sched_pc>>

\* run_scheduler step 1 on a host whose GPUs report telemetry of LimitStats.
LowFreeRefresh ==
    /\ sched_pc = "refresh"
    /\ \E results \in [GpuIds -> LimitStats \cup {StatErr}] :
          gpu_stats' = update_all_gpu_stats(Inner, results).gpu_stats
    /\ sched_pc' = "place"
    /\ UNCHANGED <<now, local, tasks, queues, gpu_allocations, ignored_gpus, ID_COUNTER, children,
                   requests>>

LimitNext ==
    \/ \E n \in GpuReqs : Submit(n, Some(UserQueue))
    \/ \E g \in GpuIds : GpuAllocate(g, UserQueue)
    \/ \E limit \in LimitChoices : QueueSetResourceLimit(UserQueue, limit)
    \/ LowFreeRefresh
    \/ PlaceSpawning
    \/ SchedReconcile
    \/ \E p \in Pids : ChildExit(p)
    \/ \E p \in Pids, e \in ExitStatuses : MonitorFinalize(p, e)

LimitSpec == Init /\ [][LimitNext]_vars

\* Task t is the one waiting task of queue q, which runs nothing, admits one
\* task at a time and owns GPU 0 and no other; GPU 0 is not ignored and its
\* telemetry is LowFreeStat.
C27_Scenario(q, t) ==
    /\ q \in DOMAIN queues
    /\ t \in DOMAIN tasks
    /\ queues[q].max_concurrent = 1
    /\ queues[q].waiting_task_ids = <<t>>
    /\ queues[q].running_task_ids = <<>>
    /\ tasks[t].state = "Waiting"
    /\ tasks[t].queue = q
    /\ tasks[t].gpu_require = 1
    /\ {g \in DOMAIN gpu_allocations : gpu_allocations[g] = Some(q)} = {0}
    /\ 0 \notin ignored_gpus
    /\ 0 \in DOMAIN gpu_stats
    /\ gpu_stats[0] = LowFreeStat

\* C27: in a queue that owns GPU 0 (10,000 MB, 1,000 MB free) and admits one
\* task, a waiting task needing one GPU is still Waiting after every placement
\* pass taken while the queue's limit is Percentage 50, and is Running on GPU 0
\* after the first placement pass taken once the limit is Percentage 5.
C27_LimitFilter ==
    [][\A q \in QueueNames, t \in TaskIds :
          (PlaceTurn /\ C27_Scenario(q, t)) =>
              /\ queues[q].resource_limit = PercentageLimit(50)
                    => tasks'[t].state = "Waiting"
              /\ queues[q].resource_limit = PercentageLimit(5)
                    => /\ tasks'[t].state = "Running"
                       /\ tasks'[t].gpu_ids = <<0>>]_vars

\* T has waited through a placement pass under Percentage 50, the limit has been
\* changed to Percentage 5, and T is Running on GPU 0.
C27_RunningAfterLimitUpdate ==
    \E t \in DOMAIN tasks :
        /\ tasks[t].queue = UserQueue
        /\ tasks[t].state = "Running"
        /\ tasks[t].gpu_ids = <<0>>
        /\ tasks[t].gpu_require = 1
        /\ UserQueue \in DOMAIN queues
        /\ queues[UserQueue].resource_limit = PercentageLimit(5)
        /\ gpu_stats = [g \in {0} |-> LowFreeStat]
        /\ ID_COUNTER = 1
        /\ requests = MaxRequests

\* ------------------------------------------- the order of the waiting tasks
\* C28: when tasks a and b wait in one queue the scheduler places from, with
\* equal priority and one GPU needed each, a created before b (ids are handed
\* out in creation order), and one GPU is available to the queue, the
\* placement pass over that queue does not start b and leave a waiting,
\* whatever the order of the two ids in the queue's waiting list.
C28_CreatedFirstPlacedFirst ==
    \A q \in DOMAIN queues \ {DEFAULT_WAITING_QUEUE_NAME} :
      \A a \in DOMAIN tasks, b \in DOMAIN tasks :
        ( /\ sched_pc = "place"
          /\ a < b
          /\ {a, b} \subseteq Elems(queues[q].waiting_task_ids)
          /\ tasks[a].state = "Waiting" /\ tasks[b].state = "Waiting"
          /\ tasks[a].priority = tasks[b].priority
          /\ tasks[a].gpu_require = 1 /\ tasks[b].gpu_require = 1
          /\ Len(queues[q].running_task_ids) < queues[q].max_concurrent
          /\ Len(QueuePlan(Inner, q, Snapshot(Inner)).available) = 1 )
        => LET w == schedule_queue(World(Inner, children), q, Snapshot(Inner),
                                   [t \in TaskIds |-> "spawned"])
           IN  ~(/\ w.st.tasks[b].state = "Running"
                 /\ w.st.tasks[a].state = "Waiting")

\* --------------------------------------------------- tasks that need no GPU
\* Task t is among the waiting tasks the pass over queue q considers, and the
\* queue has a slot left when the pass comes to t: the tasks it runs and the
\* tasks ahead of t that it can start are fewer than max_concurrent.
C29_SlotFreeFor(q, t) ==
    /\ q \in DOMAIN queues
    /\ LET p == QueuePlan(Inner, q, Snapshot(Inner))
       IN  \E i \in 1..Len(p.waiting) :
              /\ p.waiting[i].id = t
              /\ \A j \in 1..(i - 1) : p.waiting[j].id # t
              /\ p.count + Cardinality({j \in 1..(i - 1) :
                                           can_run(p.waiting[j], p.available)})
                    < p.current_queue.max_concurrent

\* C29: a waiting task that needs no GPU and is reached by the placement pass
\* while its queue has a concurrency slot left is Running after the pass with
\* no GPU assigned, however many GPUs are available to the queue, and every
\* GPU that was available to the queue is still available to it or has been
\* assigned to another task.
C29_ZeroGpuPlacement ==
    [][\A q \in QueueNames, t \in TaskIds :
          ( /\ PlaceTurn
            /\ C29_SlotFreeFor(q, t)
            /\ tasks[t].gpu_require = 0
            /\ tasks[t].queue = q )
          => /\ tasks'[t].state = "Running"
             /\ tasks'[t].gpu_ids = <<>>
             /\ \A g \in Elems(QueuePlan(Inner, q, Snapshot(Inner)).available) :
                   \/ g \in Elems(QueuePlan(Inner', q, Snapshot(Inner')).available)
                   \/ \E u \in DOMAIN tasks \ {t} :
                         /\ tasks[u].state = "Waiting"
                         /\ tasks'[u].state = "Running"
                         /\ g \in Elems(tasks'[u].gpu_ids)]_vars

\* A task that needs no GPU runs without one in a queue that owns a GPU no
\* task uses, while a task that needs a GPU waits in the same queue.
C29_RunningWithoutGpu ==
    \E t \in DOMAIN tasks, u \in DOMAIN tasks :
        /\ tasks[t].gpu_require = 0
        /\ tasks[t].state = "Running"
        /\ tasks[t].gpu_ids = <<>>
        /\ tasks[t].queue = UserQueue
        /\ gpu_allocations = [g \in {0} |-> Some(UserQueue)]
        /\ tasks[u].gpu_require = 1
        /\ tasks[u].state = "Waiting"
        /\ tasks[u].queue = UserQueue

\* ------------------------------------------ Queue.Move among the placement
MoveNext ==
    \/ \E q \in {None, Some(UserQueue)} : Submit(1, q)
    \/ \E g \in GpuIds : GpuAllocate(g, UserQueue)
    \/ \E t \in TaskIds, n \in QueueNames : QueueMove(t, n)
    \/ SchedRefresh
    \/ PlaceBegin
    \/ PlaceQueue
    \/ PlaceMark
    \/ \E o \in LaunchOutcomes : PlaceLaunch(o)
    \/ PlaceRevert
    \/ SchedReconcile
    \/ \E p \in Pids : ChildExit(p)
    \/ \E p \in Pids, e \in ExitStatuses : MonitorFinalize(p, e)

\* Queue.Move among the steps of the placement pass, for tasks that need one
\* GPU and a GPU allocated to the user's queue.
MoveSpec == Init /\ [][MoveNext]_vars

\* C30: when the scheduler commits a task's Running transition, every GPU it
\* assigns is one that the queue owning the task at that moment owns in the
\* pass's snapshot, not ignored there, and qualifying for that queue's
\* ResourceLimit on the snapshot's telemetry, also when Queue.Move has changed
\* the task's queue since the snapshot.
C30_AssignedFromOwningQueue ==
    [][\A t \in TaskIds :
          ( /\ IsSome(local.place)
            /\ t \in DOMAIN tasks /\ t \in DOMAIN tasks'
            /\ tasks[t].state # "Running"
            /\ tasks'[t].state = "Running" )
          => LET snap == Unwrap(local.place).snap
                 q == tasks'[t].queue
             IN  \A g \in Elems(tasks'[t].gpu_ids) :
                    /\ q \in DOMAIN queues
                    /\ g \in DOMAIN snap.gpu_allocations
                    /\ snap.gpu_allocations[g] = Some(q)
                    /\ g \notin snap.ignored_gpus
                    /\ g \in DOMAIN snap.gpu_stats
                    /\ is_gpu_qualifying_for_queue(g, snap.gpu_stats[g],
                                                   queues[q].resource_limit)]_vars

\* A task runs on a GPU allocated to a queue other than its own.
C30_RunningOnForeignGpu ==
    \E t \in DOMAIN tasks :
        /\ tasks[t].state = "Running"
        /\ \E g \in Elems(tasks[t].gpu_ids) :
              /\ g \in DOMAIN gpu_allocations
              /\ IsSome(gpu_allocations[g])
              /\ gpu_allocations[g] # Some(tasks[t].queue)

\* --------------------------------------------------- the end of a task
\* C31: when the monitor of an ended child writes the final state of a Running
\* task, the task is Finished with no failure reason if the exit status is
\* success, and Failed with a failure reason if the exit is non-zero or
\* signal-caused or the wait on the child errors; its pid is None afterwards.
C31_MonitorFinalState ==
    [][\A p \in Pids, e \in ExitStatuses :
          ( /\ MonitorFinalize(p, e)
            /\ children[p].task \in DOMAIN tasks
            /\ tasks[children[p].task].state = "Running" )
          => LET t == children[p].task
             IN  /\ tasks'[t].pid = None
                 /\ e = "success"
                       => /\ tasks'[t].state = "Finished"
                          /\ tasks'[t].failure_reason = None
                 /\ e # "success"
                       => /\ tasks'[t].state = "Failed"
                          /\ IsSome(tasks'[t].failure_reason)]_vars

\* C32: once the scheduler has dealt with a failed launch of a placed task (the
\* log file cannot be created, the command does not parse, or the spawn
\* fails), the task is Failed with a failure reason and is in no list of any
\* queue, so that no later pass places it again.
C32_FailedLaunchEndsFailed ==
    [][( /\ IsSome(local.place)
         /\ Unwrap(local.place).pc = "revert"
         /\ local' # local
         /\ Unwrap(local.place).task \in DOMAIN tasks' )
       => LET t == Unwrap(local.place).task
          IN  /\ tasks'[t].state = "Failed"
              /\ IsSome(tasks'[t].failure_reason)
              /\ \A q \in DOMAIN queues' :
                    /\ ~contains(queues'[q].waiting_task_ids, t)
                    /\ ~contains(queues'[q].running_task_ids, t)]_vars

\* C33: a reconciliation step turns each task that was Running with no pid into
\* Failed, and each task that was Running with a pid whose process no longer
\* exists into Failed with a failure reason; a Running task whose process
\* still exists is left as it was.
C33_Reconcile ==
    [][\A t \in TaskIds :
          ( /\ sched_pc = "reconcile"
            /\ sched_pc' = "refresh"
            /\ t \in DOMAIN tasks
            /\ tasks[t].state = "Running" )
          => /\ t \in DOMAIN tasks'
             /\ tasks[t].pid = None => tasks'[t].state = "Failed"
             /\ (IsSome(tasks[t].pid) /\ ~ProcessExists(children, Unwrap(tasks[t].pid)))
                   => /\ tasks'[t].state = "Failed"
                      /\ IsSome(tasks'[t].failure_reason)
             /\ (IsSome(tasks[t].pid) /\ ProcessExists(children, Unwrap(tasks[t].pid)))
                   => tasks'[t] = tasks[t]]_vars

\* ------------------------------------------------- the candidate GPUs
\* Task t, which needs one GPU, is the one waiting task the pass over queue q
\* considers, and the queue runs nothing.
C34_OneWaiting(q, t) ==
    /\ sched_pc = "place"
    /\ q \in DOMAIN queues
    /\ t \in DOMAIN tasks
    /\ tasks[t].gpu_require = 1
    /\ queues[q].running_task_ids = <<>>
    /\ queues[q].max_concurrent > 0
    /\ LET p == QueuePlan(Inner, q, Snapshot(Inner))
       IN  Len(p.waiting) = 1 /\ p.waiting[1].id = t

\* The GPUs of set owners (None, or Some(q)) that are not ignored and qualify
\* for queue q's limit on the current telemetry.
C34_Qualifying(q, owners) ==
    {g \in GpuIds :
        /\ g \notin ignored_gpus
        /\ g \in DOMAIN gpu_stats
        /\ is_gpu_qualifying_for_queue(g, gpu_stats[g], queues[q].resource_limit)
        /\ \/ g \in DOMAIN gpu_allocations /\ gpu_allocations[g] \in owners
           \/ None \in owners /\ g \notin DOMAIN gpu_allocations}

\* The tasks after the pass over queue q, every launch spawning.
C34_AfterPass(q) ==
    schedule_queue(World(Inner, children), q, Snapshot(Inner),
                   [t \in TaskIds |-> "spawned"]).st.tasks

C35_QualifiesAsStated(free_mb, total_mb, core, limit) ==
    /\ CASE limit.memory_requirement_type = "Ignore" -> TRUE
         [] limit.memory_requirement_type = "AbsoluteMb" ->
               free_mb >= limit.memory_requirement_value
         [] OTHER ->
               total_mb > 0 /\ free_mb * 100 >= limit.memory_requirement_value * total_mb
    /\ \/ limit.max_gpu_utilization < 0
       \/ limit.max_gpu_utilization > 100
       \/ core <= limit.max_gpu_utilization

\* C35: for the telemetry of every GPU and the ResourceLimit of every queue,
\* is_gpu_qualifying_for_queue is true exactly when the memory check passes
\* (Ignore: always; AbsoluteMb: free_MB >= value; Percentage: total_MB > 0 and
\* free_MB * 100 >= value * total_MB, the MB being the bytes divided by
\* 1024 * 1024 without remainder) and the utilization check passes.
C35_IsQualifying ==
    \A g \in DOMAIN gpu_stats, q \in DOMAIN queues :
        is_gpu_qualifying_for_queue(g, gpu_stats[g], queues[q].resource_limit)
            <=> C35_QualifiesAsStated(gpu_stats[g].free \div KibPerMb,
                                      gpu_stats[g].total \div KibPerMb,
                                      gpu_stats[g].core_usage,
                                      queues[q].resource_limit)

\* ------------------------------------------------ a host with two GPUs
\* The GPUs of a host with one GPU more than NumGpus.
PairGpus == 0..NumGpus

\* run_scheduler step 1 on that host.
PairRefresh ==
    /\ sched_pc = "refresh"
    /\ \E results \in [PairGpus -> StatProfiles \cup {StatErr}] :
          gpu_stats' = update_all_gpu_stats(Inner, results).gpu_stats
    /\ sched_pc' = "place"
    /\ UNCHANGED <<now, local, tasks, queues, gpu_allocations, ignored_gpus, ID_COUNTER, children,
                   requests>>

PairNext ==
    \/ \E q \in {UserQueue, DEFAULT_RUNNING_QUEUE_NAME} : Submit(1, Some(q))
    \/ \E g \in PairGpus, q \in {UserQueue, DEFAULT_RUNNING_QUEUE_NAME} : GpuAllocate(g, q)
    \/ \E t \in TaskIds, n \in QueueNames : QueueMove(t, n)
    \/ PairRefresh
    \/ SchedPlace
    \/ SchedReconcile
    \/ \E p \in Pids : ChildExit(p)
    \/ \E p \in Pids, e \in ExitStatuses : MonitorFinalize(p, e)

\* Submissions of tasks that need one GPU, allocations and moves among the
\* scheduler's iterations on the host with the GPUs PairGpus.
PairSpec == Init /\ [][PairNext]_vars

\* The tasks that the placement pass schedule_tasks(order, outcome) taken in
\* the current state starts: Waiting before it and Running after it.
C36_PlacedBy(order, outcome) ==
    LET after == schedule_tasks(World(Inner, children), order, outcome).st.tasks
    IN  {t \in DOMAIN tasks :
            /\ tasks[t].state = "Waiting"
            /\ t \in DOMAIN after
            /\ after[t].state = "Running"}

\* C36: whatever order the queues are taken in and whatever comes of the
\* launches, no GPU is assigned to two of the tasks that one placement pass
\* starts, be they of one queue or of two.
C36_NoGpuAssignedTwiceInPass ==
    \A order \in QueueOrders(queues), outcome \in [TaskIds -> LaunchOutcomes] :
        LET after == schedule_tasks(World(Inner, children), order, outcome).st.tasks
        IN  \A t \in C36_PlacedBy(order, outcome), u \in C36_PlacedBy(order, outcome) :
                t # u => Elems(after[t].gpu_ids) \cap Elems(after[u].gpu_ids) = {}

\* The placement pass about to be taken starts two tasks, each on a GPU.
C36_TwoPlacedOnGpus ==
    /\ sched_pc = "place"
    /\ \E order \in QueueOrders(queues) :
          LET outcome == [t \in TaskIds |-> "spawned"]
              after == schedule_tasks(World(Inner, children), order, outcome).st.tasks
          IN  \E t \in C36_PlacedBy(order, outcome), u \in C36_PlacedBy(order, outcome) :
                 /\ t # u
                 /\ after[t].gpu_ids # <<>>
                 /\ after[u].gpu_ids # <<>>

\* ------------------------------------------------- tasks that do not fit
\* In the order the pass over queue q considers its waiting tasks, task a
\* comes before task b, the queue runs fewer tasks than max_concurrent, a needs
\* more GPUs than are available to the queue, as does every task ahead of b,
\* and b fits.
C37_UnfitAheadOfFit(q, a, b) ==
    /\ q \in DOMAIN queues
    /\ LET p == QueuePlan(Inner, q, Snapshot(Inner))
       IN  /\ p.count < p.current_queue.max_concurrent
           /\ \E i \in 1..Len(p.waiting), j \in 1..Len(p.waiting) :
                 /\ i < j
                 /\ p.waiting[i].id = a
                 /\ p.waiting[j].id = b
                 /\ \A k \in 1..(j - 1) :
                       /\ p.waiting[k].gpu_require > Len(p.available)
                       /\ p.waiting[k].id # b
                 /\ p.waiting[j].gpu_require <= Len(p.available)

\* C37: a placement pass skips a waiting task that needs more GPUs than are
\* available to its queue, leaving it Waiting with the GPUs it had (none
\* reserved), and goes on to the next task: a later task that fits is Running
\* after the same pass.
C37_SkipAndContinue ==
    [][\A q \in QueueNames, a \in TaskIds, b \in TaskIds :
          (PlaceTurn /\ C37_UnfitAheadOfFit(q, a, b))
          => /\ tasks'[a].state = "Waiting"
             /\ tasks'[a].gpu_ids = tasks[a].gpu_ids
             /\ tasks'[b].state = "Running"
             /\ Len(tasks'[b].gpu_ids) = tasks[b].gpu_require]_vars

\* A pass has skipped the first task of the user's queue, which waits for a
\* GPU, and has started the second, which needs none.
C37_SecondRunsFirstWaits ==
    /\ sched_pc = "reconcile"
    /\ UserQueue \in DOMAIN queues
    /\ queues[UserQueue].waiting_task_ids = <<1>>
    /\ queues[UserQueue].running_task_ids = <<2>>
    /\ tasks[1].state = "Waiting" /\ tasks[1].gpu_require = 1 /\ tasks[1].gpu_ids = <<>>
    /\ tasks[2].state = "Running" /\ tasks[2].gpu_require = 0

\* ------------------------------------------- SubmitAction::BatchJson
\* The TaskMeta records a client puts into a BatchJson message: id 0 asks the
\* daemon for an id, the empty queue name asks for the default queue, and the
\* other fields arrive as the client has set them (state, pid and gpu_ids are
\* overwritten by the handler and left out here); the tasks ask for no GPU.
BatchMetas ==
    [id : {0} \cup TaskIds,
     queue : {""},
     gpu_require : {0},
     priority : {SubmitPriority},
     failure_reason : {None, Some("reason")}]

RECURSIVE handle_submit_batch(_, _, _, _)
\* The loop over the tasks of a BatchJson message, counter being the number of
\* ids generated so far; every log path can be generated.
handle_submit_batch(st, counter, batch, default_queue_name) ==
    IF batch = <<>> THEN [reply |-> "Ack", st |-> st, counter |-> counter]
    ELSE LET task_meta == Head(batch)
             default_q == IF IsSome(default_queue_name) THEN Unwrap(default_queue_name)
                          ELSE DEFAULT_WAITING_QUEUE_NAME
             queue == IF task_meta.queue = "" THEN default_q ELSE task_meta.queue
             task_id == IF task_meta.id = 0 THEN NextTaskId(counter) ELSE task_meta.id
             counter1 == IF task_meta.id = 0 THEN counter + 1 ELSE counter
             task == [id |-> task_id, pid |-> None,
                      gpu_require |-> task_meta.gpu_require,
                      state |-> "Waiting", priority |-> task_meta.priority,
                      queue |-> queue, gpu_ids |-> <<>>,
                      failure_reason |-> task_meta.failure_reason]
         IN  handle_submit_batch(add_task(st, task), counter1, Tail(batch),
                                 default_queue_name)

\* A BatchJson message of one task.
SubmitBatch(task_meta, default_queue_name) ==
    /\ Accept
    /\ task_meta.id = 0 => ID_COUNTER < MaxTasks
    /\ LET r == handle_submit_batch(Inner, ID_COUNTER, <<task_meta>>, default_queue_name)
       IN  Commit(r.st) /\ ID_COUNTER' = r.counter
    /\ UNCHANGED <<now, local, children, sched_pc>>

BatchNext ==
    \/ Submit(0, Some(DEFAULT_RUNNING_QUEUE_NAME))
    \/ \E task_meta \in BatchMetas, q \in {None, Some(DEFAULT_RUNNING_QUEUE_NAME)} :
          SubmitBatch(task_meta, q)
    \/ SchedRefresh
    \/ SchedPlace
    \/ SchedReconcile
    \/ \E p \in Pids : ChildExit(p)
    \/ \E p \in Pids, e \in ExitStatuses : MonitorFinalize(p, e)

\* Batch submissions among single ones and the scheduler's iterations.
BatchSpec == Init /\ [][BatchNext]_vars

C39_TasksAreListedInTheirQueue ==
    \A t \in DOMAIN tasks :
        /\ tasks[t].state = "Waiting" =>
              /\ tasks[t].queue \in DOMAIN queues
              /\ contains(queues[tasks[t].queue].waiting_task_ids, t)
        /\ tasks[t].state = "Running" =>
              /\ tasks[t].queue \in DOMAIN queues
              /\ contains(queues[tasks[t].queue].running_task_ids, t)

\* A Running task with a pid that no running list holds.
C39_RunningOutOfRunningLists ==
    \E t \in DOMAIN tasks :
        /\ tasks[t].state = "Running"
        /\ IsSome(tasks[t].pid)
        /\ \A q \in DOMAIN queues : ~contains(queues[q].running_task_ids, t)

\* C40: in every reachable state each task id occurs at most once in all the
\* waiting and running lists of all queues together.
C40_IdListedAtMostOnce ==
    \A t \in TaskIds :
        Cardinality({<<q, l, i>> \in (DOMAIN queues) \X {"waiting", "running"} \X (1..(2 * MaxTasks)) :
                        LET ids == IF l = "waiting" THEN queues[q].waiting_task_ids
                                   ELSE queues[q].running_task_ids
                        IN  i <= Len(ids) /\ ids[i] = t}) <= 1

\* A task id in the lists of two queues at once.
C40_IdInTwoQueues ==
    \E t \in DOMAIN tasks : \E q1, q2 \in DOMAIN queues :
        /\ q1 # q2
        /\ InLists(queues[q1], t)
        /\ InLists(queues[q2], t)

=============================================================================
